---- MODULE Spec2Model ----
(***************************************************************************)
(* Model of the preset-patch code of SynthGPT                              *)
(* (backend/scripts/modify_preset.py): the coercion of raw patch values    *)
(* (_coerce_to_float) and the application of a patch to a preset document  *)
(* (apply_patch_dict), over a heap of Python objects so that copying and   *)
(* aliasing are visible.                                                   *)
(*                                                                         *)
(* Python values are records [t, n, s]: t is the Python type name, n an    *)
(* integer payload, s a sequence-of-strings payload.  A str holds its      *)
(* characters in s; a finite float holds its value in thousandths in n;    *)
(* a reference to a heap object holds the owner in n and the path in s.    *)
(***************************************************************************)
EXTENDS Integers, Sequences, FiniteSets, TLC

\* ------------------------------------------------------------------------
\* Bounds of the model
\* ------------------------------------------------------------------------

\* Number of calls of apply_patch_dict in one behaviour.
MaxCalls == 2

\* The float format, scaled down: integers up to 2^MantBits are exact
\* (2^53 for a double), a float is below 2^ExpBits (2^1024 for a double).
MantBits == 3

ExpBits == 5

\* ------------------------------------------------------------------------
\* Python values
\* ------------------------------------------------------------------------

PyNone == [t |-> "NoneType", n |-> 0, s |-> <<>>]

PyBool(b) == [t |-> "bool", n |-> IF b THEN 1 ELSE 0, s |-> <<>>]

PyInt(i) == [t |-> "int", n |-> i, s |-> <<>>]

\* A finite float, m in thousandths.
PyFloat(m) == [t |-> "float", n |-> m, s |-> <<>>]

PyInf == [t |-> "float", n |-> 1, s |-> <<"inf">>]

PyNegInf == [t |-> "float", n |-> -1, s |-> <<"inf">>]

PyNaN == [t |-> "float", n |-> 0, s |-> <<"nan">>]

PyStr(chars) == [t |-> "str", n |-> 0, s |-> chars]

\* A patch value that is a JSON object or array: only its type is read.
PyDictValue == [t |-> "dict", n |-> 0, s |-> <<>>]

PyListValue == [t |-> "list", n |-> 0, s |-> <<>>]

\* A reference to the heap object of owner o at path p.
Ref(o, p) == [t |-> "ref", n |-> o, s |-> p]

IsFiniteFloat(v) == v.t = "float" /\ v.s = <<>>

Pow2(k) == 2 ^ k

Pow10(k) == 10 ^ k

Abs(i) == IF i < 0 THEN -i ELSE i

\* ------------------------------------------------------------------------
\* float(int): exact up to 2^MantBits, round-half-even beyond,
\* OverflowError when the rounded value does not fit.
\* ------------------------------------------------------------------------

\* The exponent e >= 0 such that a < 2^(MantBits + e), least.
SpacingExp(a) == CHOOSE e \in 0..ExpBits + 1 :
                    /\ (a < Pow2(MantBits + e) \/ e = ExpBits + 1)
                    /\ \A f \in 0..(e - 1) : a >= Pow2(MantBits + f)

RoundHalfEven(a, sp) ==
    LET q == a \div sp
        r == a % sp
        up == (2 * r > sp) \/ (2 * r = sp /\ q % 2 = 1)
    IN  (IF up THEN q + 1 ELSE q) * sp

\* The magnitude |i| rounded to the float format.
RoundMagnitude(a) == RoundHalfEven(a, Pow2(SpacingExp(a)))

IntOverflows(i) == RoundMagnitude(Abs(i)) >= Pow2(ExpBits)

FloatOfInt(i) ==
    IF i < 0 THEN PyFloat(-(RoundMagnitude(-i) * 1000))
    ELSE PyFloat(RoundMagnitude(i) * 1000)

\* ------------------------------------------------------------------------
\* float(str): Python's parse of a string as a float
\* ------------------------------------------------------------------------

IsSpace(c) == c \in {" ", "\t", "\n"}

IsDigit(c) == c \in {"0", "1", "2", "3", "4", "5", "6", "7", "8", "9"}

DigitValue(c) ==
    CASE c = "0" -> 0 [] c = "1" -> 1 [] c = "2" -> 2 [] c = "3" -> 3
      [] c = "4" -> 4 [] c = "5" -> 5 [] c = "6" -> 6 [] c = "7" -> 7
      [] c = "8" -> 8 [] OTHER -> 9

Lower(c) ==
    CASE c = "I" -> "i" [] c = "N" -> "n" [] c = "F" -> "f" [] c = "T" -> "t"
      [] c = "Y" -> "y" [] c = "A" -> "a" [] c = "E" -> "e" [] OTHER -> c

\* The string without its leading and trailing whitespace.
Strip(s) ==
    LET keep == {i \in 1..Len(s) : ~IsSpace(s[i])}
    IN  IF keep = {} THEN <<>>
        ELSE LET lo == CHOOSE i \in keep : \A j \in keep : i <= j
                 hi == CHOOSE i \in keep : \A j \in keep : i >= j
             IN  SubSeq(s, lo, hi)

\* The first position of character c in s, 0 when there is none.
FirstIndex(s, c) ==
    LET at == {i \in 1..Len(s) : s[i] = c}
    IN  IF at = {} THEN 0 ELSE CHOOSE i \in at : \A j \in at : i <= j

\* A run of digits, single underscores allowed between two digits.
ValidGroup(g) ==
    /\ Len(g) > 0
    /\ \A i \in 1..Len(g) :
          \/ IsDigit(g[i])
          \/ /\ g[i] = "_"
             /\ 1 < i /\ i < Len(g)
             /\ IsDigit(g[i - 1]) /\ IsDigit(g[i + 1])

RECURSIVE DropLeadingZeros(_)
DropLeadingZeros(d) ==
    IF d # <<>> /\ d[1] = "0" THEN DropLeadingZeros(Tail(d)) ELSE d

\* The digits of a group, without underscores.
DigitsOf(g) == SelectSeq(g, IsDigit)

RECURSIVE DigitsValue(_)
DigitsValue(d) ==
    IF d = <<>> THEN 0
    ELSE 10 * DigitsValue(SubSeq(d, 1, Len(d) - 1)) + DigitValue(d[Len(d)])

\* The finite magnitude m (thousandths) as a float: rounded to the format,
\* infinity when it does not fit.
FloatOfMagnitude(m, neg) ==
    IF m < Pow2(MantBits) * 1000
    THEN PyFloat(IF neg THEN -m ELSE m)
    ELSE LET units == RoundMagnitude(RoundHalfEven(m, 1000) \div 1000)
         IN  IF units >= Pow2(ExpBits)
             THEN (IF neg THEN PyNegInf ELSE PyInf)
             ELSE PyFloat(IF neg THEN -(units * 1000) ELSE units * 1000)

\* The decimal number digits * 10^(exp10 - 3) in thousandths, as a float.
DecimalToFloat(digits, exp10, neg) ==
    LET d == DropLeadingZeros(digits)
    IN  IF d = <<>> THEN PyFloat(0)
        ELSE IF exp10 >= 0
        THEN (IF Len(d) + exp10 > 9
              THEN (IF neg THEN PyNegInf ELSE PyInf)
              ELSE FloatOfMagnitude(DigitsValue(d) * Pow10(exp10), neg))
        ELSE (IF -exp10 > Len(d)
              THEN PyFloat(0)
              ELSE FloatOfMagnitude(
                     RoundHalfEven(DigitsValue(d), Pow10(-exp10)) \div Pow10(-exp10),
                     neg))

ValueError == [ok |-> FALSE, v |-> PyNone]

Parsed(v) == [ok |-> TRUE, v |-> v]

\* The mantissa [digits][.[digits]] and exponent text of a decimal literal.
ParseDecimal(body, neg) ==
    LET ePos == FirstIndex(body, "e")
        mant == IF ePos = 0 THEN body ELSE SubSeq(body, 1, ePos - 1)
        expo == IF ePos = 0 THEN <<>> ELSE SubSeq(body, ePos + 1, Len(body))
        expSigned == expo # <<>> /\ expo[1] \in {"+", "-"}
        expNeg == expo # <<>> /\ expo[1] = "-"
        expDigits == IF expSigned THEN Tail(expo) ELSE expo
        dot == FirstIndex(mant, ".")
        intPart == IF dot = 0 THEN mant ELSE SubSeq(mant, 1, dot - 1)
        fracPart == IF dot = 0 THEN <<>> ELSE SubSeq(mant, dot + 1, Len(mant))
        expOk == ePos = 0 \/ (ValidGroup(expDigits) /\ Len(DigitsOf(expDigits)) <= 4)
        mantOk == /\ intPart = <<>> \/ ValidGroup(intPart)
                  /\ fracPart = <<>> \/ ValidGroup(fracPart)
                  /\ intPart # <<>> \/ fracPart # <<>>
        x == IF ePos = 0 THEN 0
             ELSE IF expNeg THEN -DigitsValue(DigitsOf(expDigits))
             ELSE DigitsValue(DigitsOf(expDigits))
    IN  IF ~(expOk /\ mantOk) THEN ValueError
        ELSE Parsed(DecimalToFloat(DigitsOf(intPart) \o DigitsOf(fracPart),
                                   x - Len(DigitsOf(fracPart)) + 3, neg))

\* float(s) for a str s: Parsed(float) or ValueError.
FloatOfStr(s) ==
    LET t == Strip(s)
        signed == t # <<>> /\ t[1] \in {"+", "-"}
        neg == t # <<>> /\ t[1] = "-"
        rest == IF signed THEN Tail(t) ELSE t
        body == [i \in 1..Len(rest) |-> Lower(rest[i])]
    IN  IF body = <<>> THEN ValueError
        ELSE IF body \in {<<"i", "n", "f">>, <<"i", "n", "f", "i", "n", "i", "t", "y">>}
        THEN Parsed(IF neg THEN PyNegInf ELSE PyInf)
        ELSE IF body = <<"n", "a", "n">> THEN Parsed(PyNaN)
        ELSE ParseDecimal(body, neg)

\* ------------------------------------------------------------------------
\* _coerce_to_float(key, value)
\* ------------------------------------------------------------------------

NoDiagnostics == <<>>

\* "skipping '<key>': cannot coerce string '<value>' to float"
StringDiagnostic(key, value) ==
    [key |-> key, what |-> "cannot coerce string", text |-> value.s, type |-> "str"]

\* "skipping '<key>': unexpected type <type name>"
TypeDiagnostic(key, value) ==
    [key |-> key, what |-> "unexpected type", text |-> <<>>, type |-> value.t]

\* What a call of _coerce_to_float gives: the value returned (PyNone for
\* None), the lines it printed, and the exception it raised ("" for none).
Returns(v) == [ret |-> v, diag |-> NoDiagnostics, exc |-> ""]

Skips(d) == [ret |-> PyNone, diag |-> <<d>>, exc |-> ""]

Raises(e) == [ret |-> PyNone, diag |-> NoDiagnostics, exc |-> e]

\* A slip: the number is returned as it is, not cast.
FloatOfNumberNotCast(value) == Returns(value)

\* float(value) for a value that is an int (a bool is an int) or a float.
FloatOfNumber(value) ==
    IF value.t = "float" THEN Returns(value)
    ELSE IF IntOverflows(value.n) THEN Raises("OverflowError")
    ELSE Returns(FloatOfInt(value.n))

CoerceBool(value) == Returns(IF value.n # 0 THEN PyFloat(1000) ELSE PyFloat(0))

\* A slip: the string is dropped without a word.
CoerceStrSilent(key, value) ==
    LET p == FloatOfStr(value.s)
    IN  IF p.ok THEN Returns(p.v) ELSE [ret |-> PyNone, diag |-> NoDiagnostics, exc |-> ""]

CoerceStr(key, value) ==
    LET p == FloatOfStr(value.s)
    IN  IF p.ok THEN Returns(p.v) ELSE Skips(StringDiagnostic(key, value))

CoerceToFloat(key, value) ==
    IF value.t = "bool" THEN CoerceBool(value)
    ELSE IF value.t \in {"int", "bool", "float"} THEN FloatOfNumber(value)
    ELSE IF value.t = "str" THEN CoerceStr(key, value)
    ELSE Skips(TypeDiagnostic(key, value))

\* ------------------------------------------------------------------------
\* Sample strings and raw values
\* ------------------------------------------------------------------------

Str_0_5 == <<"0", ".", "5">>

Str_soft_clip == <<"s", "o", "f", "t", " ", "c", "l", "i", "p">>

Str_inf == <<"i", "n", "f">>

Str_nan == <<"n", "a", "n">>

Str_Infinity == <<"I", "n", "f", "i", "n", "i", "t", "y">>

Str_1e999 == <<"1", "e", "9", "9", "9">>

Str_on == <<"o", "n">>

Str_pad3 == <<" ", "3", " ">>

\* Raw patch values: what json.loads can put in the "changes" mapping.
RoundedInt == Pow2(MantBits) + 1

HugeInt == Pow2(ExpBits)

RawValues ==
    { PyBool(TRUE), PyBool(FALSE),
      PyInt(3), PyInt(RoundedInt), PyInt(HugeInt),
      PyFloat(500), PyInf, PyNaN,
      PyStr(Str_0_5), PyStr(Str_soft_clip), PyStr(Str_inf), PyStr(Str_nan),
      PyStr(Str_Infinity), PyStr(Str_1e999), PyStr(Str_pad3), PyStr(Str_on),
      PyNone, PyDictValue, PyListValue }

\* Values of a validated patch: finite floats.
ValidatedValues == { PyFloat(500), PyFloat(800) }

\* The values of the patches with two entries.
PairValues ==
    { PyFloat(800), PyBool(TRUE), PyInt(3), PyStr(Str_0_5), PyStr(Str_soft_clip),
      PyNone, PyInt(HugeInt), PyNaN, PyStr(Str_inf) }

PatchKeys == {"cutoff", "volume"}

Entry(k, v) == [k |-> k, v |-> v]

\* The patches: a dict, iterated in insertion order, so a sequence of
\* entries with distinct keys; one entry over the values ones, two entries
\* over the values twos.
PatchesOver(ones, twos) ==
    {<<>>}
      \cup {<<Entry(k, v)>> : k \in PatchKeys, v \in ones}
      \cup UNION {{<<Entry(k1, v1), Entry(k2, v2)>> :
                      k2 \in PatchKeys \ {k1}, v1 \in twos, v2 \in twos} :
                   k1 \in PatchKeys}

Patches == PatchesOver(RawValues \cup ValidatedValues, PairValues)

\* ------------------------------------------------------------------------
\* The heap of dicts and lists
\* ------------------------------------------------------------------------

Addr(o, p) == [o |-> o, p |-> p]

AddrOf(v) == Addr(v.n, v.s)

\* A dict, or a list (its items keyed "0", "1", ...).
Object(t, items) == [t |-> t, items |-> items]

EmptyItems == <<>>

Calls == 1..MaxCalls

\* The owner of the objects of the shared base document.
BaseOwner == 0

SettingsShapes == {"absent", "empty", "one", "full", "list", "none", "str"}

\* The heap of a base document {"settings": ..., "wavetables": [...],
\* "preset_name": ...}: shape of settings, and whether the other keys exist.
BaseSettingsItems(shape) ==
    CASE shape = "empty" -> EmptyItems
      [] shape = "one" -> ("cutoff" :> PyFloat(300))
      [] shape = "full" ->
           ("cutoff" :> PyFloat(300)) @@ ("volume" :> PyFloat(1000))
             @@ ("legacy" :> PyInt(7))
             @@ ("modulations" :> Ref(BaseOwner, <<"settings", "modulations">>))
      [] OTHER -> ("0" :> PyFloat(300))

BaseRootItems(shape, extras) ==
    (IF shape = "absent" THEN EmptyItems
     ELSE IF shape = "none" THEN ("settings" :> PyNone)
     ELSE IF shape = "str" THEN ("settings" :> PyStr(<<"x">>))
     ELSE ("settings" :> Ref(BaseOwner, <<"settings">>)))
    @@
    (IF extras
     THEN ("wavetables" :> Ref(BaseOwner, <<"wavetables">>))
            @@ ("preset_name" :> PyStr(<<"p">>))
     ELSE EmptyItems)

BaseHeap(shape, extras) ==
    (Addr(BaseOwner, <<>>) :> Object("dict", BaseRootItems(shape, extras)))
    @@
    (IF shape \in {"empty", "one", "full"}
     THEN Addr(BaseOwner, <<"settings">>) :> Object("dict", BaseSettingsItems(shape))
     ELSE IF shape = "list"
     THEN Addr(BaseOwner, <<"settings">>) :> Object("list", BaseSettingsItems(shape))
     ELSE EmptyItems)
    @@
    (IF shape = "full"
     THEN Addr(BaseOwner, <<"settings", "modulations">>)
            :> Object("list", ("0" :> PyFloat(250)))
     ELSE EmptyItems)
    @@
    (IF extras
     THEN (Addr(BaseOwner, <<"wavetables">>)
             :> Object("list", ("0" :> Ref(BaseOwner, <<"wavetables", "0">>))))
          @@ (Addr(BaseOwner, <<"wavetables", "0">>)
             :> Object("dict", ("name" :> PyStr(<<"s", "a", "w">>))))
     ELSE EmptyItems)

\* The structural value of v in heap h: what == compares, what json.dump writes.
RECURSIVE Deep(_, _)
Deep(h, v) ==
    IF v.t = "ref"
    THEN LET obj == h[AddrOf(v)]
         IN  [t |-> obj.t, n |-> 0, s |-> <<>>,
              kids |-> [k \in DOMAIN obj.items |-> Deep(h, obj.items[k])]]
    ELSE [t |-> v.t, n |-> v.n, s |-> v.s, kids |-> <<>>]

\* The addresses of the objects reachable from v in heap h.
RECURSIVE Reachable(_, _)
Reachable(h, v) ==
    IF v.t = "ref"
    THEN LET obj == h[AddrOf(v)]
         IN  {AddrOf(v)} \cup
             UNION {Reachable(h, obj.items[k]) : k \in DOMAIN obj.items}
    ELSE {}

\* ------------------------------------------------------------------------
\* State
\* ------------------------------------------------------------------------

VARIABLES
    heap,      \* address -> dict or list object
    base,      \* the shared base document: a reference, or None
    patch,     \* call -> its patch_dict, a sequence of entries
    input,     \* call -> its vital_data argument
    pc,        \* call -> "idle", "copy", "loop", "done", "raised"
    todo,      \* call -> paths deepcopy has still to copy, depth first
    idx,       \* call -> position of the for loop in the patch
    result,    \* call -> the local `result`
    exc,       \* call -> the exception that ended it ("" for none)
    log,       \* what was printed, in order
    base0,     \* the value of the base document at the start
    in0,       \* call -> the value of its argument when it was called
    res0,      \* call -> the value of its result when it returned
    dirty      \* call -> the caller has written into its result

NoDeep == Deep(<<>>, PyNone)

\* The process around the patch code: the registry of parameter names
\* (llm/chains.py), the generation requests, the parser of the LLM's reply
\* and the posts of the browse feed (main.py).
VARIABLES
    file,            \* parameters.txt on disk: whether it exists, its lines
    proc,            \* the server process: "starting", "serving", "failed"
    parameter_list,  \* chains.parameter_list: whether it is bound, its lines
    system_prompt,   \* chains.PRESET_GENERATION_SYSTEM, as lines
    loads,           \* the number of times parameters.txt was read
    llm_text,        \* the text the LLM replies with in this behaviour
    req,             \* request -> the state of its pipeline
    raw_text,        \* the text handed to the parser of the LLM's reply
    parsed,          \* the parser has run on raw_text
    parse_out,       \* what the parser made of raw_text
    posts,           \* the rows of the table posts
    feed,            \* the posts of the last answer of GET /api/posts
    ops              \* the number of requests the posts API has served

\* The rest of main.py and of the scripts: a call of a function or of a
\* handler alone, the presets table, the storage, the database connections,
\* the comments and the votes.
VARIABLES
    call,            \* the function or handler called alone: arguments, result
    presets,         \* preset id -> its row of the table presets
    storage,         \* the keys of the objects in the previews bucket
    conns,           \* the number of database connections that are open
    tmpfiles,        \* the temporary files on disk
    comments,        \* the rows of the table comments
    last,            \* the last delete request of the posts API, its answer
    voters           \* vote request -> its state

applyVars == <<heap, base, patch, input, pc, todo, idx, result, exc, log,
               base0, in0, res0, dirty>>

procVars == <<file, proc, parameter_list, system_prompt, loads>>

genVars == <<llm_text, req>>

parseVars == <<raw_text, parsed, parse_out>>

postVars == <<posts, feed, ops>>

extVars == <<call, presets, storage, conns, tmpfiles, comments, last, voters>>

\* What the patch code does not touch.
otherVars == <<procVars, genVars, parseVars, postVars, extVars>>

vars == <<applyVars, otherVars>>

\* Number of generation requests in one behaviour.
MaxRequests == 1

Requests == 1..MaxRequests

\* The lines of parameters.txt: the registry of parameter names.
ParametersTxt == <<"cutoff", "resonance">>

\* The lines of PRESET_GENERATION_SYSTEM: the instructions, the heading,
\* then the text of parameter_list.
SystemPromptOf(lines) ==
    <<"Only use parameter names from the provided list.",
      "## Available Parameters">> \o lines

\* A request that has not arrived.
IdleRequest ==
    [st |-> "idle", has_id |-> FALSE, has_data |-> FALSE, llms |-> <<>>,
     seen |-> <<>>, llm_calls |-> 0, fetch_calls |-> 0, raw |-> <<>>,
     changes_raw |-> <<>>, explanation |-> "", changes |-> <<>>,
     diag |-> <<>>, modified |-> NoDeep, audio |-> PyNone, render_exc |-> "",
     render_env |-> "",
     err |-> "", err_raw |-> <<>>, trail |-> <<>>]

\* No parser run.
NoParse == [ok |-> FALSE, changes |-> <<>>, explanation |-> ""]

\* The process is serving with the registry loaded; no request, no parser
\* run and no post.
ProcServing ==
    /\ file = [exists |-> TRUE, lines |-> ParametersTxt]
    /\ proc = "serving"
    /\ parameter_list = [loaded |-> TRUE, lines |-> ParametersTxt]
    /\ system_prompt = SystemPromptOf(ParametersTxt)
    /\ loads = 1

NoRequests == llm_text = <<>> /\ req = [r \in Requests |-> IdleRequest]

NoParsing == raw_text = <<>> /\ parsed = FALSE /\ parse_out = NoParse

NoPosts == posts = {} /\ feed = <<>> /\ ops = 0

\* No call of a function alone.
NoCall == [fn |-> "", done |-> FALSE]

\* No delete request answered.
NoLast == [op |-> "", id |-> 0, user_id |-> "", status |-> 0]

NoCalls == call = NoCall

NoWorld == presets = <<>> /\ storage = {} /\ conns = 0 /\ tmpfiles = {}

NoComments == comments = {} /\ last = NoLast

NoVoters == voters = <<>>

NoExt == NoCalls /\ NoWorld /\ NoComments /\ NoVoters

\* The base documents: None, every shape of settings, and some of them with
\* the other top-level keys.
Docs ==
    {[null |-> TRUE, shape |-> "absent", extras |-> FALSE]}
      \cup [null : {FALSE}, shape : SettingsShapes, extras : {FALSE}]
      \cup [null : {FALSE}, shape : {"absent", "full", "list"}, extras : {TRUE}]

InitWith(docs, patches) ==
    /\ \E d \in docs :
          /\ heap = (IF d.null THEN <<>> ELSE BaseHeap(d.shape, d.extras))
          /\ base = (IF d.null THEN PyNone ELSE Ref(BaseOwner, <<>>))
          /\ base0 = (IF d.null THEN NoDeep
                      ELSE Deep(BaseHeap(d.shape, d.extras), Ref(BaseOwner, <<>>)))
    /\ patch \in patches
    /\ input = [c \in Calls |-> PyNone]
    /\ pc = [c \in Calls |-> "idle"]
    /\ todo = [c \in Calls |-> <<>>]
    /\ idx = [c \in Calls |-> 0]
    /\ result = [c \in Calls |-> PyNone]
    /\ exc = [c \in Calls |-> ""]
    /\ log = <<>>
    /\ in0 = [c \in Calls |-> NoDeep]
    /\ res0 = [c \in Calls |-> NoDeep]
    /\ dirty = [c \in Calls |-> FALSE]

\* One patch for every call of the behaviour, any base document.
Init ==
    /\ InitWith(Docs, {[c \in Calls |-> p] : p \in Patches})
    /\ ProcServing /\ NoRequests /\ NoParsing /\ NoPosts /\ NoExt

\* ------------------------------------------------------------------------
\* apply_patch_dict(vital_data, patch_dict)
\* ------------------------------------------------------------------------

Finished(c) == pc[c] \in {"done", "raised"}

\* The documents a caller can pass: the base document, or an earlier result.
Arguments == {base} \cup {result[d] : d \in {e \in Calls : pc[e] = "done"}}

\* The call begins: deepcopy starts at the root of the argument.
Start(c) ==
    /\ pc[c] = "idle"
    /\ \A d \in Calls : d < c => pc[d] # "idle"
    /\ \E v \in Arguments :
          /\ input' = [input EXCEPT ![c] = v]
          /\ in0' = [in0 EXCEPT ![c] = Deep(heap, v)]
          /\ todo' = [todo EXCEPT ![c] = IF v.t = "ref" THEN <<v.s>> ELSE <<>>]
    /\ pc' = [pc EXCEPT ![c] = "copy"]
    /\ UNCHANGED <<heap, base, patch, idx, result, exc, log, base0, res0, dirty>>
    /\ UNCHANGED otherVars

\* A slip: result = vital_data, no copy at all.
CopiedValueAliased(v, c) == v

\* What deepcopy puts in the copy for the value v of the original.
CopiedValue(v, c) == IF v.t = "ref" THEN Ref(c, v.s) ELSE v

\* A slip: copy.copy, the dicts and lists inside are shared.
CopyOfShallow(obj, c) == obj

\* The copy deepcopy makes of one dict or list for call c.
CopyOf(obj, c) ==
    Object(obj.t, [k \in DOMAIN obj.items |-> CopiedValue(obj.items[k], c)])

\* The order in which the keys of a dict are visited.
KeyOrder == <<"settings", "wavetables", "preset_name", "cutoff", "volume",
              "legacy", "modulations", "name", "0", "touched">>

\* The paths of the containers held by an object, in the order of its keys.
ChildPaths(obj) ==
    LET IsChild(k) == k \in DOMAIN obj.items /\ obj.items[k].t = "ref"
        keys == SelectSeq(KeyOrder, IsChild)
    IN  [i \in 1..Len(keys) |-> obj.items[keys[i]].s]

\* deepcopy copies one dict or list, and goes on with what it holds.
CopyStep(c) ==
    /\ pc[c] = "copy"
    /\ todo[c] # <<>>
    /\ LET p == Head(todo[c])
           obj == heap[Addr(input[c].n, p)]
           copy == CopyOf(obj, c)
           to == AddrOf(CopiedValue(Ref(input[c].n, p), c))
       IN  /\ heap' = (to :> copy) @@ heap
           /\ todo' = [todo EXCEPT ![c] = ChildPaths(obj) \o Tail(todo[c])]
    /\ UNCHANGED <<base, patch, input, pc, idx, result, exc, log,
                   base0, in0, res0, dirty>>
    /\ UNCHANGED otherVars

\* A slip: any container passes for a dict.
HasSettingsContainer(h, root) ==
    /\ "settings" \in DOMAIN h[AddrOf(root)].items
    /\ h[AddrOf(root)].items["settings"].t = "ref"

\* 'settings' in result and isinstance(result['settings'], dict)
HasSettingsDict(h, root) ==
    /\ "settings" \in DOMAIN h[AddrOf(root)].items
    /\ h[AddrOf(root)].items["settings"].t = "ref"
    /\ h[AddrOf(h[AddrOf(root)].items["settings"])].t = "dict"

\* The heap once result['settings'] is a dict.
EnsuredSettings(h, root, c) ==
    IF HasSettingsDict(h, root) THEN h
    ELSE (Addr(c, <<"settings">>) :> Object("dict", EmptyItems))
         @@ [h EXCEPT ![AddrOf(root)].items =
                ("settings" :> Ref(c, <<"settings">>)) @@ @]

\* result = deepcopy(...) is assigned; 'settings' is looked up in it, which
\* raises TypeError for None; a missing or non-dict settings becomes {}.
EnsureSettings(c) ==
    /\ pc[c] = "copy"
    /\ todo[c] = <<>>
    /\ LET r == CopiedValue(input[c], c)
       IN  /\ result' = [result EXCEPT ![c] = r]
           /\ IF r.t # "ref"
              THEN /\ pc' = [pc EXCEPT ![c] = "raised"]
                   /\ exc' = [exc EXCEPT ![c] = "TypeError"]
                   /\ UNCHANGED <<heap, idx>>
              ELSE /\ pc' = [pc EXCEPT ![c] = "loop"]
                   /\ idx' = [idx EXCEPT ![c] = 1]
                   /\ heap' = EnsuredSettings(heap, r, c)
                   /\ UNCHANGED exc
    /\ UNCHANGED <<base, patch, input, todo, log, base0, in0, res0, dirty>>
    /\ UNCHANGED otherVars

\* A slip: the value is added to the one already there.
WriteSettingAdding(h, root, key, value) ==
    LET a == AddrOf(h[AddrOf(root)].items["settings"])
    IN  [h EXCEPT ![a].items =
            (key :> (IF key \in DOMAIN h[a].items /\ IsFiniteFloat(h[a].items[key])
                        /\ IsFiniteFloat(value)
                     THEN PyFloat(h[a].items[key].n + value.n)
                     ELSE value)) @@ @]

\* A slip: result['settings'] = {key: value}.
WriteSettingReplacing(h, root, key, value) ==
    [h EXCEPT ![AddrOf(h[AddrOf(root)].items["settings"])].items = (key :> value)]

\* The heap after result['settings'][key] = value.
WriteSetting(h, root, key, value) ==
    [h EXCEPT ![AddrOf(h[AddrOf(root)].items["settings"])].items =
        (key :> value) @@ @]

\* A slip: the coerced value is written without the test for None.
PatchStepWritingNone(c) ==
    /\ pc[c] = "loop"
    /\ idx[c] <= Len(patch[c])
    /\ LET e == patch[c][idx[c]]
           r == CoerceToFloat(e.k, e.v)
       IN  /\ log' = log \o r.diag
           /\ IF r.exc # ""
              THEN /\ pc' = [pc EXCEPT ![c] = "raised"]
                   /\ exc' = [exc EXCEPT ![c] = r.exc]
                   /\ UNCHANGED <<heap, idx>>
              ELSE /\ heap' = WriteSetting(heap, result[c], e.k, r.ret)
                   /\ idx' = [idx EXCEPT ![c] = @ + 1]
                   /\ UNCHANGED <<pc, exc>>
    /\ UNCHANGED <<base, patch, input, todo, result, base0, in0, res0, dirty>>
    /\ UNCHANGED otherVars

\* One turn of the for loop: coerce the entry; write it unless it is None.
PatchStep(c) ==
    /\ pc[c] = "loop"
    /\ idx[c] <= Len(patch[c])
    /\ LET e == patch[c][idx[c]]
           r == CoerceToFloat(e.k, e.v)
       IN  /\ log' = log \o r.diag
           /\ IF r.exc # ""
              THEN /\ pc' = [pc EXCEPT ![c] = "raised"]
                   /\ exc' = [exc EXCEPT ![c] = r.exc]
                   /\ UNCHANGED <<heap, idx>>
              ELSE /\ heap' = (IF r.ret # PyNone
                               THEN WriteSetting(heap, result[c], e.k, r.ret)
                               ELSE heap)
                   /\ idx' = [idx EXCEPT ![c] = @ + 1]
                   /\ UNCHANGED <<pc, exc>>
    /\ UNCHANGED <<base, patch, input, todo, result, base0, in0, res0, dirty>>
    /\ UNCHANGED otherVars

\* return result
Return(c) ==
    /\ pc[c] = "loop"
    /\ idx[c] > Len(patch[c])
    /\ pc' = [pc EXCEPT ![c] = "done"]
    /\ res0' = [res0 EXCEPT ![c] = Deep(heap, result[c])]
    /\ UNCHANGED <<heap, base, patch, input, todo, idx, result, exc, log,
                   base0, in0, dirty>>
    /\ UNCHANGED otherVars

TouchedItems(obj) ==
    IF obj.t = "dict" THEN ("touched" :> PyStr(<<"w">>)) @@ obj.items
    ELSE ("0" :> PyStr(<<"w">>)) @@ obj.items

\* The caller, who owns the returned document, writes into one of its
\* dicts or lists, between two calls.
CallerWrite(c) ==
    /\ pc[c] = "done"
    /\ ~dirty[c]
    /\ \A d \in Calls : pc[d] = "idle" \/ Finished(d)
    /\ \E a \in Reachable(heap, result[c]) :
          heap' = [heap EXCEPT ![a].items = TouchedItems(heap[a])]
    /\ dirty' = [dirty EXCEPT ![c] = TRUE]
    /\ UNCHANGED <<base, patch, input, pc, todo, idx, result, exc, log,
                   base0, in0, res0>>
    /\ UNCHANGED otherVars

\* The steps of a call that has begun.
Step(c) ==
    \/ CopyStep(c)
    \/ EnsureSettings(c)
    \/ PatchStep(c)
    \/ Return(c)

\* A call begins when no other call is running.
StartAlone(c) ==
    /\ \A d \in Calls : pc[d] = "idle" \/ Finished(d)
    /\ Start(c)

\* Calls one after the other, each on the base document or on an earlier
\* result, all with the same patch.
Next == \E c \in Calls : StartAlone(c) \/ Step(c)

Spec == Init /\ [][Next]_vars

\* The same, with a caller that writes into the documents it was returned.
CallerDocs ==
    { [null |-> FALSE, shape |-> "full", extras |-> TRUE],
      [null |-> FALSE, shape |-> "list", extras |-> TRUE],
      [null |-> FALSE, shape |-> "one", extras |-> FALSE],
      [null |-> FALSE, shape |-> "absent", extras |-> FALSE] }

CallerPatches ==
    PatchesOver({PyFloat(800), PyStr(Str_soft_clip), PyBool(TRUE)}, {PyFloat(800)})

InitCaller ==
    /\ InitWith(CallerDocs, {[c \in Calls |-> p] : p \in CallerPatches})
    /\ ProcServing /\ NoRequests /\ NoParsing /\ NoPosts /\ NoExt

NextCaller == \E c \in Calls : StartAlone(c) \/ Step(c) \/ CallerWrite(c)

SpecCaller == InitCaller /\ [][NextCaller]_vars

\* Requests that run at the same time, each with a patch of its own.
ConcDocs ==
    { [null |-> FALSE, shape |-> "full", extras |-> TRUE],
      [null |-> FALSE, shape |-> "one", extras |-> FALSE],
      [null |-> FALSE, shape |-> "none", extras |-> FALSE] }

ConcPatches ==
    { <<>>,
      <<Entry("cutoff", PyFloat(800))>>,
      <<Entry("volume", PyBool(TRUE))>>,
      <<Entry("cutoff", PyStr(Str_soft_clip)), Entry("volume", PyFloat(500))>> }

InitConc ==
    /\ InitWith(ConcDocs, [Calls -> ConcPatches])
    /\ ProcServing /\ NoRequests /\ NoParsing /\ NoPosts /\ NoExt

NextConc == \E c \in Calls : Start(c) \/ Step(c)

SpecConc == InitConc /\ [][NextConc]_vars

\* A document value whose settings is a mapping.
HasSettingsMapping(d) ==
    /\ d.t = "dict"
    /\ "settings" \in DOMAIN d.kids
    /\ d.kids["settings"].t = "dict"

\* A scalar as it appears in the value of a document.
Scalar(v) == [t |-> v.t, n |-> v.n, s |-> v.s, kids |-> <<>>]

\* ------------------------------------------------------------------------
\* llm/chains.py at import: the registry of parameter names
\* ------------------------------------------------------------------------

\* parameters.txt after somebody has edited it.
ParametersTxtEdited == <<"cutoff">>

FileStates ==
    { [exists |-> TRUE, lines |-> ParametersTxt],
      [exists |-> TRUE, lines |-> ParametersTxtEdited],
      [exists |-> FALSE, lines |-> <<>>] }

NotLoaded == [loaded |-> FALSE, lines |-> <<>>]

\* The process imports llm.chains: open(parameters.txt) and f.read(), then
\* the system prompt is built from the text; open() raises when the file is
\* missing and the import, with it the process, fails.
ImportChains ==
    /\ proc = "starting"
    /\ IF file.exists
       THEN /\ parameter_list' = [loaded |-> TRUE, lines |-> file.lines]
            /\ system_prompt' = SystemPromptOf(file.lines)
            /\ loads' = loads + 1
            /\ proc' = "serving"
       ELSE /\ proc' = "failed"
            /\ UNCHANGED <<parameter_list, system_prompt, loads>>
    /\ UNCHANGED <<file, applyVars, extVars, genVars, parseVars, postVars>>

\* Somebody edits, removes or restores parameters.txt while the process
\* runs.
FileChanges ==
    /\ proc = "serving"
    /\ file' \in FileStates \ {file}
    /\ UNCHANGED <<proc, parameter_list, system_prompt, loads,
                   applyVars, extVars, genVars, parseVars, postVars>>

\* ------------------------------------------------------------------------
\* llm/providers.py and llm/chains.py: the generation chain
\* ------------------------------------------------------------------------

\* class LLMProvider
LLMProvider == {"openai", "gemini", "ollama"}

\* The provider a request can name.
ProviderNames == {"ollama", "mistral"}

\* get_llm_with_fallback(provider): the model with the local model behind it.
GetLLMWithFallback(provider) ==
    IF provider \in LLMProvider
    THEN [exc |-> "", llms |-> <<provider, "ollama">>]
    ELSE [exc |-> "ValueError", llms |-> <<>>]

\* get_llm(provider): the chat model of the provider; LLMProvider(name)
\* raises ValueError for a name that is no provider.
GetLLM(provider) ==
    IF provider \in LLMProvider
    THEN [exc |-> "", llms |-> <<provider>>]
    ELSE [exc |-> "ValueError", llms |-> <<>>]

\* A slip: the chain reads parameters.txt again when it is built.
GetGenerationChainReloading(provider) ==
    LET l == GetLLM(provider)
    IN  [exc |-> IF file.exists THEN l.exc ELSE "FileNotFoundError",
         system |-> SystemPromptOf(file.lines), llms |-> l.llms]

\* get_generation_chain(provider): prompt | llm | StrOutputParser(), the
\* system message being PRESET_GENERATION_SYSTEM.
GetGenerationChain(provider) ==
    LET l == GetLLM(provider)
    IN  [exc |-> l.exc, system |-> system_prompt, llms |-> l.llms]

\* ------------------------------------------------------------------------
\* apply_patch_dict(vital_data, patch_dict) as a function of values
\* ------------------------------------------------------------------------

DictValue(kids) == [t |-> "dict", n |-> 0, s |-> <<>>, kids |-> kids]

\* The items of result['settings'] after the body of the loop, co being
\* what coercion gave: written when coerced is not None.
WrittenIfCoerced(settings, key, co) ==
    IF co.ret # PyNone THEN (key :> Scalar(co.ret)) @@ settings ELSE settings

\* The for loop from entry i on, over the items of result['settings']:
\* the items at the end, what was printed, the exception that ended it.
RECURSIVE PatchFrom(_, _, _)
PatchEntry(settings, patch_dict, i, co) ==
    IF co.exc # ""
    THEN [kids |-> settings, diag |-> <<>>, exc |-> co.exc]
    ELSE [PatchFrom(WrittenIfCoerced(settings, patch_dict[i].k, co), patch_dict, i + 1)
            EXCEPT !.diag = co.diag \o @]

PatchFrom(settings, patch_dict, i) ==
    IF i > Len(patch_dict)
    THEN [kids |-> settings, diag |-> <<>>, exc |-> ""]
    ELSE PatchEntry(settings, patch_dict, i,
                    CoerceToFloat(patch_dict[i].k, patch_dict[i].v))

\* The items of result['settings'] after lines 30 to 32.
SettingsOrEmpty(vital_data) ==
    IF HasSettingsMapping(vital_data) THEN vital_data.kids["settings"].kids ELSE <<>>

\* What the call gives when its loop has ended as loop.
AfterLoop(vital_data, loop) ==
    IF loop.exc # ""
    THEN [doc |-> NoDeep, diag |-> loop.diag, exc |-> loop.exc]
    ELSE [doc |-> [vital_data EXCEPT !.kids = ("settings" :> DictValue(loop.kids)) @@ @],
          diag |-> loop.diag, exc |-> ""]

ApplyPatchDict(vital_data, patch_dict) ==
    IF vital_data.t # "dict"
    THEN [doc |-> NoDeep, diag |-> <<>>, exc |-> "TypeError"]
    ELSE AfterLoop(vital_data, PatchFrom(SettingsOrEmpty(vital_data), patch_dict, 1))

\* ------------------------------------------------------------------------
\* render_preset_to_wav_b64(preset_dict)
\* ------------------------------------------------------------------------

\* What the synthesizer, the temporary file and the WAV writer do in a call.
RenderFine ==
    [synth |-> "ok", dump |-> "ok", load |-> "true", render |-> "stereo",
     write |-> "ok", unlink |-> "ok"]

\* The cases of a call, by name.
RenderEnvNames ==
    {"fine", "synthesizer unavailable", "dump raises", "preset does not load",
     "load raises", "render raises", "mono buffer", "write raises", "unlink raises"}

RenderEnv(name) ==
    CASE name = "synthesizer unavailable" -> [RenderFine EXCEPT !.synth = "raises"]
      [] name = "dump raises" -> [RenderFine EXCEPT !.dump = "raises"]
      [] name = "preset does not load" -> [RenderFine EXCEPT !.load = "false"]
      [] name = "load raises" -> [RenderFine EXCEPT !.load = "raises"]
      [] name = "render raises" -> [RenderFine EXCEPT !.render = "raises"]
      [] name = "mono buffer" -> [RenderFine EXCEPT !.render = "mono"]
      [] name = "write raises" -> [RenderFine EXCEPT !.write = "raises"]
      [] name = "unlink raises" -> [RenderFine EXCEPT !.unlink = "raises"]
      [] OTHER -> RenderFine

\* The base64 text of a WAV file.
WavB64 == PyStr(<<"U", "k", "l", "G">>)

RenderReturns(v) == [ret |-> v, exc |-> "", printed |-> FALSE]

RenderRaises == [ret |-> PyNone, exc |-> "Exception", printed |-> FALSE]

\* The inner try block: load, render, check the shape, write, encode.
RenderInner(e) ==
    IF e.load = "raises" THEN RenderRaises
    ELSE IF e.load = "false" THEN RenderReturns(PyNone)
    ELSE IF e.render = "raises" THEN RenderRaises
    ELSE IF e.render # "stereo" THEN RenderReturns(PyNone)
    ELSE IF e.write = "raises" THEN RenderRaises
    ELSE RenderReturns(WavB64)

\* The outer try block: the synthesizer, the temporary file, the inner
\* block and its finally clause (os.unlink).
RenderTry(e) ==
    IF e.synth = "raises" THEN RenderRaises
    ELSE IF e.dump = "raises" THEN RenderRaises
    ELSE IF e.unlink = "raises" THEN RenderRaises
    ELSE RenderInner(e)

\* The temporary file is there when the call ends: NamedTemporaryFile
\* (delete=False) has created it, and os.unlink, which is the finally
\* clause of the inner block alone, has not removed it.
TempFileLeft(e) ==
    IF e.synth = "raises" THEN FALSE
    ELSE IF e.dump = "raises" THEN TRUE
    ELSE e.unlink = "raises"

\* A slip: no except clause around the body.
RenderPresetToWavB64Uncaught(e) == RenderTry(e)

\* except Exception: print and return None.
RenderPresetToWavB64(e) ==
    IF RenderTry(e).exc # ""
    THEN [ret |-> PyNone, exc |-> "", printed |-> TRUE]
    ELSE RenderTry(e)

\* ------------------------------------------------------------------------
\* The parser of the LLM's reply (the generation orchestrator)
\* ------------------------------------------------------------------------

\* The backquote character.
Backquote == "BACKQUOTE"

\* The fenced-code marker: three backquotes.
Fence == <<Backquote, Backquote, Backquote>>

StartsWith(s, p) == Len(s) >= Len(p) /\ SubSeq(s, 1, Len(p)) = p

EndsWith(s, p) == Len(s) >= Len(p) /\ SubSeq(s, Len(s) - Len(p) + 1, Len(s)) = p

\* The text after its first line.
AfterFirstLine(s) ==
    LET i == FirstIndex(s, "\n")
    IN  IF i = 0 THEN <<>> ELSE SubSeq(s, i + 1, Len(s))

\* A slip: only the opening fence line is stripped.
StripFencesOpeningOnly(raw) ==
    IF StartsWith(raw, Fence) THEN AfterFirstLine(raw) ELSE raw

\* A text that begins with a fence marker loses the opening fence line
\* and, if it ends with one, the trailing fence marker.
StripFences(raw) ==
    IF StartsWith(raw, Fence)
    THEN LET body == AfterFirstLine(raw)
         IN  IF EndsWith(body, Fence)
             THEN SubSeq(body, 1, Len(body) - Len(Fence))
             ELSE body
    ELSE raw

\* The structured objects of the model, each written with one letter: the
\* reply that raises the cutoff, one whose values are no numbers, one with
\* no changes, one with an integer beyond the floats.
ObjectBodies == {"a", "b", "e", "h"}

ObjectOf(body) ==
    CASE body = "a" ->
           [changes |-> <<Entry("cutoff", PyFloat(800))>>,
            explanation |-> "raised cutoff"]
      [] body = "b" ->
           [changes |-> <<Entry("cutoff", PyStr(Str_soft_clip)),
                          Entry("volume", PyNone)>>,
            explanation |-> "soft clipping"]
      [] body = "e" ->
           [changes |-> <<>>, explanation |-> "nothing to change"]
      [] OTHER ->
           [changes |-> <<Entry("cutoff", PyInt(HugeInt))>>,
            explanation |-> "wide open"]

NotJsonSpace(c) == c \notin {" ", "\t", "\n", "\r"}

ParseFails == [ok |-> FALSE, changes |-> <<>>, explanation |-> ""]

\* The parse of a text as the structured object: whitespace between the
\* tokens does not count.
ParseJson(text) ==
    LET t == SelectSeq(text, NotJsonSpace)
    IN  IF Len(t) = 3 /\ t[1] = "{" /\ t[3] = "}" /\ t[2] \in ObjectBodies
        THEN [ok |-> TRUE, changes |-> ObjectOf(t[2]).changes,
              explanation |-> ObjectOf(t[2]).explanation]
        ELSE ParseFails

ParseLLMOutput(raw) == ParseJson(StripFences(raw))

\* The texts of a structured object: on one line, over several lines, with
\* blanks.
ObjectTexts ==
    UNION { { <<"{", b, "}">>, <<"{", "\n", b, "\n", "}">>, <<"{", " ", b, " ", "}">> } :
            b \in ObjectBodies }

\* The opening fence lines and the trailing fence markers.
FenceOpenings == { Fence \o <<"\n">>, Fence \o <<"j", "s", "o", "n", "\n">> }

FenceClosings == { <<>>, Fence, <<"\n">> \o Fence }

\* Texts that are no structured object.
NoObjectTexts == { <<"n", "o">>, <<"{", "a">>, <<"{", Backquote, "}">> }

Fenced(texts) ==
    { o \o t \o c : o \in FenceOpenings, t \in texts, c \in FenceClosings }

ParserTexts ==
    ObjectTexts \cup Fenced(ObjectTexts) \cup NoObjectTexts \cup Fenced(NoObjectTexts)

\* The parser runs on raw_text.
RunParser ==
    /\ ~parsed
    /\ parsed' = TRUE
    /\ parse_out' = ParseLLMOutput(raw_text)
    /\ UNCHANGED <<raw_text, applyVars, extVars, procVars, genVars, postVars>>

\* ------------------------------------------------------------------------
\* The generation orchestrator: one request
\* ------------------------------------------------------------------------

\* The states of a request, in order.
PipelineStates ==
    <<"built prompt", "awaiting LLM response", "parsing response",
      "coercing patch", "applying patch", "rendering", "complete">>

\* The preset document of a request, inline or fetched from storage.
RequestDocument ==
    DictValue(("settings" :>
        DictValue(("cutoff" :> Scalar(PyFloat(300))) @@ ("legacy" :> Scalar(PyInt(7))))))

\* The replies of the LLM.
LLMTexts ==
    { <<"{", "a", "}">>, <<"{", "b", "}">>, <<"{", "e", "}">>, <<"{", "h", "}">>,
      Fence \o <<"j", "s", "o", "n", "\n", "{", "a", "}", "\n">> \o Fence,
      <<"n", "o">> }

\* The request q in state st.
Moved(q, st) == [q EXCEPT !.st = st, !.trail = Append(@, st)]

\* The request q ended by an error of the kind.
Failed(q, kind) == [Moved(q, "error") EXCEPT !.err = kind]

\* The patch coerced entry by entry, from entry i on: the validated patch,
\* the diagnostics, the exception.
RECURSIVE CoerceFrom(_, _)
CoerceEntry(key, co, rest) ==
    IF co.exc # "" THEN [changes |-> <<>>, diag |-> <<>>, exc |-> co.exc]
    ELSE IF rest.exc # "" THEN rest
    ELSE [changes |-> (IF co.ret # PyNone THEN <<Entry(key, co.ret)>> ELSE <<>>)
                        \o rest.changes,
          diag |-> co.diag \o rest.diag,
          exc |-> ""]

CoerceFrom(p, i) ==
    IF i > Len(p)
    THEN [changes |-> <<>>, diag |-> <<>>, exc |-> ""]
    ELSE CoerceEntry(p[i].k, CoerceToFloat(p[i].k, p[i].v), CoerceFrom(p, i + 1))

\* The patches the replies of the model carry, and the coercion of each.
ReplyPatches == {ObjectOf(body).changes : body \in ObjectBodies}

CoercedPatch == [p \in ReplyPatches |-> CoerceFrom(p, 1)]

\* A handler that takes whatever it is given.
ValidInputUnchecked(has_id, has_data) == TRUE

\* The request names its preset by exactly one of preset_id and preset_data.
ValidInput(has_id, has_data) == has_id # has_data

\* The request arrives: its input is validated, then the chain is built.
Receive(r) ==
    /\ proc = "serving"
    /\ req[r].st = "idle"
    /\ \A q \in Requests : q < r => req[q].st # "idle"
    /\ \E has_id \in BOOLEAN, has_data \in BOOLEAN, provider \in ProviderNames :
          LET chain == GetGenerationChain(provider)
              got == [req[r] EXCEPT !.has_id = has_id, !.has_data = has_data]
          IN  req' = [req EXCEPT ![r] =
                  IF ~ValidInput(has_id, has_data) THEN Failed(got, "ClientInputError")
                  ELSE IF chain.exc # "" THEN Failed(got, "LLMProviderError")
                  ELSE Moved([got EXCEPT !.llms = chain.llms,
                                         !.seen = chain.system],
                             "built prompt")]
    /\ UNCHANGED <<llm_text, applyVars, extVars, procVars, parseVars, postVars>>

\* The chain is invoked: the prompt goes to the LLM.
InvokeChain(r) ==
    /\ req[r].st = "built prompt"
    /\ req' = [req EXCEPT ![r] =
                  Moved([@ EXCEPT !.llm_calls = 1], "awaiting LLM response")]
    /\ UNCHANGED <<llm_text, applyVars, extVars, procVars, parseVars, postVars>>

\* The LLM replies.
LLMReplies(r) ==
    /\ req[r].st = "awaiting LLM response"
    /\ req' = [req EXCEPT ![r] =
                  Moved([@ EXCEPT !.raw = llm_text], "parsing response")]
    /\ UNCHANGED <<llm_text, applyVars, extVars, procVars, parseVars, postVars>>

\* The LLM call fails or times out: the next model of the chain is tried,
\* if there is one.
LLMFails(r) ==
    /\ req[r].st = "awaiting LLM response"
    /\ req' = [req EXCEPT ![r] =
                  IF @.llm_calls < Len(@.llms)
                  THEN [@ EXCEPT !.llm_calls = @ + 1]
                  ELSE Failed(@, "LLMProviderError")]
    /\ UNCHANGED <<llm_text, applyVars, extVars, procVars, parseVars, postVars>>

\* A handler that takes a reply it cannot parse for an empty patch.
AfterParseLenient(q, p) ==
    Moved([q EXCEPT !.changes_raw = p.changes, !.explanation = p.explanation],
          "coercing patch")

\* A handler that applies the patch as the LLM gave it, uncoerced.
AfterParseUncoerced(q, p) ==
    IF p.ok
    THEN Moved([q EXCEPT !.changes = p.changes, !.explanation = p.explanation],
               "applying patch")
    ELSE [Failed(q, "LLMFormatError") EXCEPT !.err_raw = q.raw]

\* The request q after the parse p of its reply.
AfterParse(q, p) ==
    IF p.ok
    THEN Moved([q EXCEPT !.changes_raw = p.changes, !.explanation = p.explanation],
               "coercing patch")
    ELSE [Failed(q, "LLMFormatError") EXCEPT !.err_raw = q.raw]

\* The reply is parsed.
ParseResponse(r) ==
    /\ req[r].st = "parsing response"
    /\ req' = [req EXCEPT ![r] = AfterParse(@, ParseLLMOutput(@.raw))]
    /\ UNCHANGED <<llm_text, applyVars, extVars, procVars, parseVars, postVars>>

\* The request q after the coercion co of its patch.
AfterCoercion(q, co) ==
    IF co.exc # "" THEN Failed(q, "InternalError")
    ELSE Moved([q EXCEPT !.changes = co.changes, !.diag = co.diag], "applying patch")

\* The patch is coerced.
CoercePatch(r) ==
    /\ req[r].st = "coercing patch"
    /\ req' = [req EXCEPT ![r] = AfterCoercion(@, CoercedPatch[@.changes_raw])]
    /\ UNCHANGED <<llm_text, applyVars, extVars, procVars, parseVars, postVars>>

\* The request q after the call ap of apply_patch_dict.
AfterApply(q, ap) ==
    IF ap.exc # "" THEN Failed(q, "InternalError")
    ELSE Moved([q EXCEPT !.modified = ap.doc], "rendering")

\* The patch is applied to the document of the request, which is fetched
\* from storage when the request names it.
ApplyPatch(r) ==
    /\ req[r].st = "applying patch"
    /\ \E fetched \in BOOLEAN :
          /\ ~req[r].has_id => fetched
          /\ req' = [req EXCEPT ![r] =
                IF ~fetched
                THEN Failed([@ EXCEPT !.fetch_calls = 1], "UpstreamFetchError")
                ELSE AfterApply([@ EXCEPT !.fetch_calls = IF req[r].has_id THEN 1 ELSE 0],
                                ApplyPatchDict(RequestDocument, @.changes))]
    /\ UNCHANGED <<llm_text, applyVars, extVars, procVars, parseVars, postVars>>

\* The request q after the call out of render_preset_to_wav_b64.
AfterRender(q, out) ==
    Moved([q EXCEPT !.audio = IF out.exc = "" THEN out.ret ELSE PyNone,
                    !.render_exc = out.exc],
          "complete")

\* The patched document is rendered, and the request completes with the
\* audio or without it.
Render(r) ==
    /\ req[r].st = "rendering"
    /\ \E name \in RenderEnvNames :
          /\ req' = [req EXCEPT ![r] =
                       AfterRender([@ EXCEPT !.render_env = name],
                                   RenderPresetToWavB64(RenderEnv(name)))]
          /\ tmpfiles' = IF TempFileLeft(RenderEnv(name))
                         THEN tmpfiles \cup {r} ELSE tmpfiles
    /\ UNCHANGED <<llm_text, applyVars, procVars, parseVars, postVars,
                   call, presets, storage, conns, comments, last, voters>>

\* The steps of a request that has arrived.
RequestStep(r) ==
    \/ InvokeChain(r)
    \/ LLMReplies(r)
    \/ LLMFails(r)
    \/ ParseResponse(r)
    \/ CoercePatch(r)
    \/ ApplyPatch(r)
    \/ Render(r)

\* No call of apply_patch_dict outside the requests.
ApplyIdle ==
    InitWith({[null |-> FALSE, shape |-> "one", extras |-> FALSE]},
             {[c \in Calls |-> <<>>]})

InitGen ==
    /\ file \in FileStates
    /\ proc = "starting"
    /\ parameter_list = NotLoaded
    /\ system_prompt = <<>>
    /\ loads = 0
    /\ llm_text \in LLMTexts
    /\ req = [r \in Requests |-> IdleRequest]
    /\ ApplyIdle /\ NoParsing /\ NoPosts /\ NoExt

NextGen ==
    \/ ImportChains
    \/ FileChanges
    \/ \E r \in Requests : Receive(r) \/ RequestStep(r)

\* The process and its generation requests.
SpecGen == InitGen /\ [][NextGen]_vars

\* The same, every handler running to its end.
SpecGenFair ==
    SpecGen /\ WF_vars(ImportChains) /\ \A r \in Requests : WF_vars(RequestStep(r))

InitParse ==
    /\ raw_text \in ParserTexts
    /\ parsed = FALSE
    /\ parse_out = NoParse
    /\ ApplyIdle /\ ProcServing /\ NoRequests /\ NoPosts /\ NoExt

NextParse == RunParser

\* The parser on every text of the model.
SpecParse == InitParse /\ [][NextParse]_vars

\* ------------------------------------------------------------------------
\* Properties
\* ------------------------------------------------------------------------

\* The value of the result of call c, now.
ResultNow(c) == Deep(heap, result[c])

\* The items of result['settings'] of call c, now.
SettingsNow(c) == heap[AddrOf(heap[AddrOf(result[c])].items["settings"])].items

\* The number of entries of its patch call c has been through.
Processed(c) ==
    IF pc[c] \in {"loop", "done"} \/ (pc[c] = "raised" /\ exc[c] = "OverflowError")
    THEN idx[c] - 1
    ELSE 0

\* A validated patch: every value a finite float.
Validated(p) == \A i \in 1..Len(p) : IsFiniteFloat(p[i].v)

PatchKeysOf(p) == {p[i].k : i \in 1..Len(p)}

\* C1: for a document D and a validated patch P, the result R of
\* apply_patch_dict(D, P) has R.settings[k] = P[k] for every k of P, every
\* settings key of D that is not in P unchanged, and every top-level key of
\* D other than settings unchanged.
C1_PatchedKeysOnly ==
    \A c \in Calls :
        (pc[c] = "done" /\ ~dirty[c] /\ Validated(patch[c])) =>
            LET R == ResultNow(c)
                D == in0[c]
                P == patch[c]
            IN  /\ "settings" \in DOMAIN R.kids
                /\ \A i \in 1..Len(P) :
                      /\ P[i].k \in DOMAIN R.kids["settings"].kids
                      /\ R.kids["settings"].kids[P[i].k] = Scalar(P[i].v)
                /\ HasSettingsMapping(D) =>
                      \A k \in DOMAIN D.kids["settings"].kids \ PatchKeysOf(P) :
                          /\ k \in DOMAIN R.kids["settings"].kids
                          /\ R.kids["settings"].kids[k] = D.kids["settings"].kids[k]
                /\ \A k \in DOMAIN D.kids \ {"settings"} :
                      /\ k \in DOMAIN R.kids
                      /\ R.kids[k] = D.kids[k]

\* A call has returned for a document with settings, a nested list in them
\* and other top-level keys, and a validated patch of one key.
C1_Witness ==
    \E c \in Calls :
        /\ pc[c] = "done"
        /\ patch[c] = <<Entry("cutoff", PyFloat(800))>>
        /\ HasSettingsMapping(in0[c])
        /\ {"volume", "modulations"} \subseteq DOMAIN in0[c].kids["settings"].kids
        /\ "wavetables" \in DOMAIN in0[c].kids
        /\ in0[c].kids["settings"].kids["cutoff"] = Scalar(PyFloat(300))
        /\ ResultNow(c).kids["settings"].kids["cutoff"] = Scalar(PyFloat(800))

\* The calls whose result is assigned and is a document.
HasResult(c) == pc[c] \in {"loop", "done"} /\ result[c].t = "ref"

\* C2: apply_patch_dict never mutates its input: the base document keeps
\* its value through any number of calls; a returned document keeps its
\* value while later calls take it as their argument and while the caller
\* writes into other documents; two calls from the same document and patch
\* return equal results; and a result shares no dict or list with the base
\* document, with the argument of its call or with another result.
C2_InputNeverMutated ==
    /\ base.t = "ref" => Deep(heap, base) = base0
    /\ \A c \in Calls :
          /\ (pc[c] = "done" /\ ~dirty[c]) => ResultNow(c) = res0[c]
          /\ HasResult(c) =>
                /\ Reachable(heap, result[c]) \cap Reachable(heap, base) = {}
                /\ Reachable(heap, result[c]) \cap Reachable(heap, input[c]) = {}
          /\ \A d \in Calls \ {c} :
                /\ (HasResult(c) /\ HasResult(d)) =>
                      Reachable(heap, result[c]) \cap Reachable(heap, result[d]) = {}
                /\ (pc[c] = "done" /\ pc[d] = "done"
                      /\ in0[c] = in0[d] /\ patch[c] = patch[d]) =>
                      res0[c] = res0[d]

\* Two calls on the base document have returned, the patch has written a
\* key the document holds, and the caller has written into a nested list of
\* the first result.
C2_Witness ==
    /\ pc[1] = "done" /\ pc[2] = "done"
    /\ input[1] = base /\ input[2] = base
    /\ patch[1] = <<Entry("cutoff", PyFloat(800))>>
    /\ HasSettingsMapping(base0)
    /\ "modulations" \in DOMAIN base0.kids["settings"].kids
    /\ dirty[1]
    /\ ResultNow(1).kids["settings"].kids["modulations"].kids["0"] = Scalar(PyStr(<<"w">>))
    /\ ResultNow(2).kids["settings"].kids["modulations"] = base0.kids["settings"].kids["modulations"]

\* The entries of its patch call c has been through, by position.
ProcessedEntries(c) == 1..Processed(c)

\* A magnitude the float format holds exactly.
Representable(a) ==
    /\ a < Pow2(ExpBits)
    /\ \E e \in 0..ExpBits : \E q \in 0..Pow2(MantBits) : a = q * Pow2(e)

\* The float f is a float nearest to the integer i.
NearestFloat(i, f) ==
    /\ IsFiniteFloat(f)
    /\ f.n % 1000 = 0
    /\ (i < 0) => (f.n <= 0)
    /\ (i > 0) => (f.n >= 0)
    /\ Representable(Abs(f.n) \div 1000)
    /\ \A r \in 0..Pow2(ExpBits) :
          Representable(r) =>
              Abs(Abs(i) - (Abs(f.n) \div 1000)) <= Abs(Abs(i) - r)

\* What C3 says of the entries that are not integers.
C3_NonIntegerPolicy(e, S) ==
    /\ e.v.t = "bool" =>
          /\ e.k \in DOMAIN S
          /\ S[e.k] = (IF e.v = PyBool(TRUE) THEN PyFloat(1000) ELSE PyFloat(0))
    /\ e.v.t = "float" => (e.k \in DOMAIN S /\ S[e.k] = e.v)
    /\ (e.v.t = "str" /\ FloatOfStr(e.v.s).ok) =>
          (e.k \in DOMAIN S /\ S[e.k] = FloatOfStr(e.v.s).v)
    /\ e.v = PyStr(Str_0_5) => (e.k \in DOMAIN S /\ S[e.k] = PyFloat(500))
    /\ e.v = PyStr(Str_pad3) => (e.k \in DOMAIN S /\ S[e.k] = PyFloat(3000))

\* C3 as stated: a boolean becomes 1.0 or 0.0, an integer or float becomes
\* the float of the same value, a string that parses as a number becomes
\* the parsed float.
C3_AsStated ==
    \A c \in Calls : \A i \in ProcessedEntries(c) :
        LET e == patch[c][i]
            S == SettingsNow(c)
        IN  /\ C3_NonIntegerPolicy(e, S)
            /\ e.v.t = "int" => (e.k \in DOMAIN S /\ S[e.k] = PyFloat(e.v.n * 1000))

\* C3, amended: a boolean becomes 1.0 or 0.0; an integer that is converted
\* becomes a float nearest to it, which is the float of the same value
\* whenever the format holds the integer exactly (3 -> 3.0); a float stays
\* the same float; a string that parses as a number becomes the parsed
\* float ("0.5" -> 0.5).
C3_CoercionPolicy ==
    \A c \in Calls : \A i \in ProcessedEntries(c) :
        LET e == patch[c][i]
            S == SettingsNow(c)
        IN  /\ C3_NonIntegerPolicy(e, S)
            /\ e.v.t = "int" =>
                  /\ e.k \in DOMAIN S
                  /\ NearestFloat(e.v.n, S[e.k])
                  /\ Representable(Abs(e.v.n)) => S[e.k] = PyFloat(e.v.n * 1000)

\* A call has returned for the patch {"cutoff": true, "volume": 3}.
C3_Witness ==
    \E c \in Calls :
        /\ pc[c] = "done"
        /\ patch[c] = <<Entry("cutoff", PyBool(TRUE)), Entry("volume", PyInt(3))>>
        /\ SettingsNow(c)["cutoff"] = PyFloat(1000)
        /\ SettingsNow(c)["volume"] = PyFloat(3000)

\* An entry that coercion drops: a string that float() rejects, or a value
\* that is no bool, number or string.
C4_Dropped(v) ==
    \/ v.t = "str" /\ ~FloatOfStr(v.s).ok
    \/ v.t \in {"NoneType", "dict", "list"}

\* The one diagnostic of a dropped entry.
C4_Diagnostic(e) ==
    IF e.v.t = "str"
    THEN [key |-> e.k, what |-> "cannot coerce string", text |-> e.v.s, type |-> "str"]
    ELSE [key |-> e.k, what |-> "unexpected type", text |-> <<>>, type |-> e.v.t]

RECURSIVE C4_Diagnostics(_, _)
C4_Diagnostics(p, n) ==
    IF n = 0 THEN <<>>
    ELSE C4_Diagnostics(p, n - 1)
           \o (IF C4_Dropped(p[n].v) THEN <<C4_Diagnostic(p[n])>> ELSE <<>>)

\* What the calls 1..k have printed, one call after the other.
RECURSIVE C4_ExpectedLog(_)
C4_ExpectedLog(k) ==
    IF k = 0 THEN <<>>
    ELSE C4_ExpectedLog(k - 1) \o C4_Diagnostics(patch[k], Processed(k))

\* C4: an entry whose value is a string that does not parse, null, an
\* object or an array is dropped, its key not written to settings, with
\* exactly one diagnostic naming the key and the string, or the key and the
\* type; an entry that is converted emits none.
C4_DroppedWithOneDiagnostic ==
    /\ log = C4_ExpectedLog(MaxCalls)
    /\ \A c \in Calls : \A i \in ProcessedEntries(c) :
          LET e == patch[c][i]
              D == in0[c]
              R == ResultNow(c).kids["settings"].kids
          IN  C4_Dropped(e.v) =>
                  IF HasSettingsMapping(D) /\ e.k \in DOMAIN D.kids["settings"].kids
                  THEN e.k \in DOMAIN R /\ R[e.k] = D.kids["settings"].kids[e.k]
                  ELSE e.k \notin DOMAIN R

\* The first call has returned for {"cutoff": "soft clip", "volume": null}:
\* two diagnostics, neither key written.
C4_Witness ==
    /\ pc[1] = "done"
    /\ pc[2] = "idle"
    /\ patch[1] = <<Entry("cutoff", PyStr(Str_soft_clip)), Entry("volume", PyNone)>>
    /\ Len(log) = 2
    /\ log[1].text = Str_soft_clip
    /\ log[2].type = "NoneType"
    /\ DOMAIN SettingsNow(1) \cap {"cutoff", "volume"} = {}

\* The entry is one coercion drops: its value is no bool and no number, and
\* _coerce_to_float returns None for it.
C25_DroppedByCoercion(e) ==
    /\ e.v.t \notin {"bool", "int", "float"}
    /\ CoerceToFloat(e.k, e.v).ret = PyNone

\* C25: a patch entry that coercion drops leaves the value the document has
\* for its key as it was: with D.settings[k] = v and k mapped by the patch
\* to a value that cannot be coerced, the returned document has
\* settings[k] = v, neither removed nor overwritten; a key that D does not
\* have is not in the returned document.
C25_DroppedEntryKeepsValue ==
    \A c \in Calls :
        (pc[c] = "done" /\ ~dirty[c]) =>
            \A i \in 1..Len(patch[c]) :
                C25_DroppedByCoercion(patch[c][i]) =>
                    IF /\ HasSettingsMapping(in0[c])
                       /\ patch[c][i].k \in DOMAIN in0[c].kids["settings"].kids
                    THEN /\ patch[c][i].k \in DOMAIN res0[c].kids["settings"].kids
                         /\ res0[c].kids["settings"].kids[patch[c][i].k] =
                               in0[c].kids["settings"].kids[patch[c][i].k]
                    ELSE patch[c][i].k \notin DOMAIN res0[c].kids["settings"].kids

\* A call has returned for a document with cutoff 0.3 and a patch that
\* maps cutoff to a string float() rejects and writes another key: cutoff
\* is 0.3 in the result.
C25_Witness ==
    \E c \in Calls :
        /\ pc[c] = "done"
        /\ HasSettingsMapping(in0[c])
        /\ "cutoff" \in DOMAIN in0[c].kids["settings"].kids
        /\ in0[c].kids["settings"].kids["cutoff"] = Scalar(PyFloat(300))
        /\ \E i \in 1..Len(patch[c]) :
              /\ patch[c][i].k = "cutoff"
              /\ patch[c][i].v = PyStr(Str_soft_clip)
        /\ \E i \in 1..Len(patch[c]) :
              /\ patch[c][i].k # "cutoff"
              /\ CoerceToFloat(patch[c][i].k, patch[c][i].v).ret # PyNone
        /\ res0[c].kids["settings"].kids["cutoff"] = Scalar(PyFloat(300))

\* C5: every value coercion accepts and apply_patch_dict writes into
\* settings is a finite float.
C5_WrittenValuesFinite ==
    \A c \in Calls : \A i \in ProcessedEntries(c) :
        LET e == patch[c][i]
            S == SettingsNow(c)
        IN  (~C4_Dropped(e.v) /\ e.k \in DOMAIN S) => IsFiniteFloat(S[e.k])

\* C6: for a document and any raw patch, apply_patch_dict does not raise:
\* it returns, the bad entries dropped and every other entry applied.
C6_NeverRaisesForAnEntry ==
    \A c \in Calls :
        /\ in0[c].t = "dict" => pc[c] # "raised"
        /\ (pc[c] = "done" /\ in0[c].t = "dict") =>
              \A i \in 1..Len(patch[c]) :
                  ~C4_Dropped(patch[c][i].v) =>
                      patch[c][i].k \in DOMAIN SettingsNow(c)

\* The entries of patch p that survive coercion, as the items of a mapping.
Survivors(p) ==
    LET keep == {i \in 1..Len(p) : ~C4_Dropped(p[i].v)}
    IN  [k \in {p[i].k : i \in keep} |->
            LET i == CHOOSE j \in keep : p[j].k = k
            IN  Scalar(CoerceToFloat(k, p[i].v).ret)]

\* C7: the result of a patch operation has a settings key whose value is a
\* mapping; when the input document has no settings key, or one that is
\* not a mapping, it is a fresh mapping of exactly the surviving entries
\* of the patch, the empty patch included.
C7_SettingsAlwaysMapping ==
    \A c \in Calls :
        pc[c] = "done" =>
            LET R == ResultNow(c)
                D == in0[c]
            IN  /\ HasSettingsMapping(R)
                /\ ~HasSettingsMapping(D) =>
                      /\ R.kids["settings"].kids = Survivors(patch[c])
                      /\ AddrOf(heap[AddrOf(result[c])].items["settings"])
                            \notin Reachable(heap, input[c])

\* A call has returned for a document whose settings is a list and the
\* patch {"cutoff": "soft clip", "volume": 0.8}.
C7_Witness ==
    \E c \in Calls :
        /\ pc[c] = "done"
        /\ "settings" \in DOMAIN in0[c].kids
        /\ in0[c].kids["settings"].t = "list"
        /\ patch[c] = <<Entry("cutoff", PyStr(Str_soft_clip)),
                        Entry("volume", PyFloat(800))>>
        /\ ResultNow(c).kids["settings"].t = "dict"
        /\ ResultNow(c).kids["settings"].kids = ("volume" :> Scalar(PyFloat(800)))

\* The value of the empty document {}.
EmptyDocument == [t |-> "dict", n |-> 0, s |-> <<>>, kids |-> <<>>]

\* C8: apply_patch_dict(null, P) and apply_patch_dict({}, P) return,
\* without raising, a document whose settings holds exactly the entries of
\* the validated patch P.
C8_NullOrEmptyDocumentAccepted ==
    \A c \in Calls :
        (pc[c] # "idle" /\ Validated(patch[c])
            /\ (input[c] = PyNone \/ in0[c] = EmptyDocument)) =>
            /\ pc[c] # "raised"
            /\ pc[c] = "done" =>
                  ResultNow(c).kids["settings"].kids = Survivors(patch[c])

\* C9: apply_patch_dict(apply_patch_dict(D, P), P) equals
\* apply_patch_dict(D, P), for a validated patch P.
C9_Idempotent ==
    \A c \in Calls : \A d \in Calls \ {c} :
        (pc[c] = "done" /\ pc[d] = "done" /\ input[d] = result[c]
            /\ patch[d] = patch[c] /\ Validated(patch[c])) =>
            /\ in0[d] = res0[c]
            /\ res0[d] = res0[c]
            /\ ResultNow(d) = ResultNow(c)

\* The second call has returned for the result of the first, the patch
\* {"cutoff": 0.8, "volume": 0.8} on a document that held another cutoff.
C9_Witness ==
    /\ pc[1] = "done" /\ pc[2] = "done"
    /\ input[1] = base /\ input[2] = result[1]
    /\ patch[1] = <<Entry("cutoff", PyFloat(800)), Entry("volume", PyFloat(800))>>
    /\ HasSettingsMapping(base0)
    /\ "cutoff" \in DOMAIN base0.kids["settings"].kids
    /\ base0.kids["settings"].kids["cutoff"] = Scalar(PyFloat(300))
    /\ ResultNow(2).kids["settings"].kids["cutoff"] = Scalar(PyFloat(800))

\* apply_patch_dict(D, P) run alone, on the value D.
C10_ApplyAlone(D, P) ==
    LET before == IF HasSettingsMapping(D) THEN D.kids["settings"].kids ELSE <<>>
        after == [t |-> "dict", n |-> 0, s |-> <<>>, kids |-> Survivors(P) @@ before]
    IN  [D EXCEPT !.kids = ("settings" :> after) @@ @]

\* C10: when several requests run apply_patch_dict at the same time on the
\* shared document, each with its patch, in any interleaving, the document
\* is never changed and each result is the result of its call run alone.
C10_ConcurrentReuseSafe ==
    /\ Deep(heap, base) = base0
    /\ \A c \in Calls :
          /\ pc[c] # "idle" => Deep(heap, input[c]) = in0[c]
          /\ (pc[c] # "idle" /\ input[c] = base) => in0[c] = base0
          /\ pc[c] = "done" =>
                /\ ResultNow(c) = C10_ApplyAlone(in0[c], patch[c])
                /\ ResultNow(c) = res0[c]

\* The first request has written its entry while the second, with another
\* patch, has copied only a part of the shared document.
C10_Witness ==
    /\ input[1] = base /\ input[2] = base
    /\ pc[1] = "loop" /\ idx[1] = 2
    /\ patch[1] = <<Entry("cutoff", PyFloat(800))>>
    /\ patch[2] = <<Entry("volume", PyBool(TRUE))>>
    /\ pc[2] = "copy" /\ Len(todo[2]) > 0
    /\ Addr(2, <<>>) \in DOMAIN heap
    /\ HasSettingsMapping(base0)
    /\ "wavetables" \in DOMAIN base0.kids

\* ------------------------------------------------------------------------
\* Properties of the registry and of the generation pipeline
\* ------------------------------------------------------------------------

\* The parameter names of the registry, as loaded.
RegistryNames == {parameter_list.lines[i] : i \in 1..Len(parameter_list.lines)}

\* C11: every key a patch has written into settings belongs to the
\* registry of parameter names: a settings key of the result is a name of
\* parameter_list or was a settings key of the input document.
C11_WrittenKeysInRegistry ==
    \A c \in Calls :
        pc[c] = "done" =>
            \A k \in DOMAIN SettingsNow(c) :
                \/ k \in RegistryNames
                \/ /\ HasSettingsMapping(in0[c])
                   /\ k \in DOMAIN in0[c].kids["settings"].kids

\* The sequence a begins the sequence b.
IsPrefix(a, b) == Len(a) <= Len(b) /\ SubSeq(b, 1, Len(a)) = a

Terminal == {"complete", "error"}

\* The states a request has been through are the pipeline's, in its order,
\* up to some state, or up to some state before the last and then the error.
TrailInOrder(q) ==
    /\ q.st = (IF q.trail = <<>> THEN "idle" ELSE q.trail[Len(q.trail)])
    /\ \/ IsPrefix(q.trail, PipelineStates)
       \/ /\ q.trail # <<>>
          /\ q.trail[Len(q.trail)] = "error"
          /\ Len(q.trail) <= Len(PipelineStates)
          /\ IsPrefix(SubSeq(q.trail, 1, Len(q.trail) - 1), PipelineStates)

C13_NoLLMCallOnInvalidInput ==
    \A r \in Requests :
        /\ (req[r].st # "idle" /\ ~req[r].has_id /\ ~req[r].has_data) =>
              /\ req[r].st = "error"
              /\ req[r].err = "ClientInputError"
              /\ req[r].llm_calls = 0
              /\ req[r].trail = <<"error">>
        /\ req[r].llm_calls > 0 => req[r].has_id # req[r].has_data

\* A request without preset_id and preset_data has been turned down.
C13_Witness ==
    \E r \in Requests :
        /\ ~req[r].has_id /\ ~req[r].has_data
        /\ req[r].err = "ClientInputError"

\* The request q has been through the state st.
HasBeenIn(q, st) == \E i \in 1..Len(q.trail) : q.trail[i] = st

C15_UnparsableReplyIsFormatError ==
    \A r \in Requests :
        (/\ HasBeenIn(req[r], "parsing response")
         /\ req[r].st # "parsing response"
         /\ ~ParseLLMOutput(req[r].raw).ok) =>
            /\ req[r].st = "error"
            /\ req[r].err = "LLMFormatError"
            /\ req[r].err_raw = llm_text
            /\ ~HasBeenIn(req[r], "coercing patch")
            /\ ~HasBeenIn(req[r], "applying patch")
            /\ ~HasBeenIn(req[r], "rendering")
            /\ req[r].changes = <<>> /\ req[r].diag = <<>>
            /\ req[r].modified = NoDeep
            /\ req[r].render_env = "" /\ req[r].audio = PyNone

\* A request whose reply is no structured object has ended in the error.
C15_Witness ==
    \E r \in Requests :
        /\ req[r].raw = <<"n", "o">>
        /\ req[r].err = "LLMFormatError"
        /\ req[r].err_raw = <<"n", "o">>

\* C16: for every text T of a structured object, the output made of an
\* opening fence line, T and an optional trailing fence marker parses to the
\* object that T alone parses to; an output that does not begin with a fence
\* marker is parsed as it is.
C16_FenceStripping ==
    parsed =>
        /\ \A T \in ObjectTexts, o \in FenceOpenings, c \in FenceClosings :
              raw_text = o \o T \o c =>
                  /\ parse_out.ok
                  /\ parse_out = ParseJson(T)
        /\ ~StartsWith(raw_text, Fence) => parse_out = ParseJson(raw_text)

\* A reply fenced on both sides has been parsed to its object.
C16_Witness ==
    /\ parsed
    /\ raw_text = Fence \o <<"j", "s", "o", "n", "\n">>
                       \o <<"{", "\n", "a", "\n", "}">> \o <<"\n">> \o Fence
    /\ parse_out.ok
    /\ parse_out.changes = <<Entry("cutoff", PyFloat(800))>>
    /\ parse_out.explanation = "raised cutoff"

\* No entry of the patch p comes out of the coercion with a value.
NoSurvivor(p) ==
    \A i \in 1..Len(p) : CoerceToFloat(p[i].k, p[i].v).ret = PyNone

\* C17: a patch of which no entry survives the coercion, the empty patch
\* included, is no error: the call on a document with a settings mapping
\* returns, and the document it returns equals the document it was given.
C17_NoSurvivorPatchIsNoOp ==
    \A c \in Calls :
        (/\ pc[c] \in {"done", "raised"}
         /\ HasSettingsMapping(in0[c])
         /\ NoSurvivor(patch[c])) =>
            /\ pc[c] = "done"
            /\ ResultNow(c) = in0[c]

MaxPostRequests == 3

\* A text column: NULL, or a string.
SqlNull == [null |-> TRUE, s |-> <<>>]

SqlText(chars) == [null |-> FALSE, s |-> chars]

\* An integer column: NULL, or a number.
SqlNullInt == [null |-> TRUE, n |-> 0]

SqlInt(n) == [null |-> FALSE, n |-> n]

UserIds == {"u1", "u2"}

\* user_id of a request: a user, or not given.
UserIdParams == UserIds \cup {""}

Titles == { SqlText(<<"P", "a", "d">>), SqlText(<<"b", "a", "s", "s">>) }

Descriptions == { SqlNull, SqlText(<<"p", "a", "d">>) }

\* PostCreate.visibility: "public" unless given, any string, or null.
Visibilities ==
    { SqlText(<<"p", "u", "b", "l", "i", "c">>),
      SqlText(<<"p", "r", "i", "v", "a", "t", "e">>),
      SqlNull }

Public == SqlText(<<"p", "u", "b", "l", "i", "c">>)

Private == SqlText(<<"p", "r", "i", "v", "a", "t", "e">>)

\* search of GET /api/posts: not given, or a string.
Searches ==
    { SqlNull, SqlText(<<>>), SqlText(<<"p", "a", "d">>), SqlText(<<"x">>),
      SqlText(<<"%">>) }

\* The truth values of SQL.
SqlTrue == "true"

SqlFalse == "false"

SqlUnknown == "unknown"

SqlBool(b) == IF b THEN SqlTrue ELSE SqlFalse

SqlAnd(a, b) ==
    IF a = SqlFalse \/ b = SqlFalse THEN SqlFalse
    ELSE IF a = SqlUnknown \/ b = SqlUnknown THEN SqlUnknown
    ELSE SqlTrue

SqlOr(a, b) ==
    IF a = SqlTrue \/ b = SqlTrue THEN SqlTrue
    ELSE IF a = SqlUnknown \/ b = SqlUnknown THEN SqlUnknown
    ELSE SqlFalse

\* column = 'literal'
SqlEq(col, lit) == IF col.null THEN SqlUnknown ELSE SqlBool(col.s = lit.s)

LowerLetter(c) ==
    CASE c = "P" -> "p" [] c = "A" -> "a" [] c = "D" -> "d" [] c = "B" -> "b"
      [] c = "S" -> "s" [] c = "X" -> "x" [] OTHER -> c

\* text LIKE pattern without regard to case: % stands for any run of
\* characters, _ for any one.
RECURSIVE LikeNoCase(_, _)
LikeNoCase(t, p) ==
    IF p = <<>> THEN t = <<>>
    ELSE IF p[1] = "%"
    THEN LikeNoCase(t, Tail(p)) \/ (t # <<>> /\ LikeNoCase(Tail(t), p))
    ELSE /\ t # <<>>
         /\ p[1] = "_" \/ LowerLetter(p[1]) = LowerLetter(t[1])
         /\ LikeNoCase(Tail(t), Tail(p))

\* column ILIKE $1, with $1 = f"%{search}%"
ILike(col, search) ==
    IF col.null THEN SqlUnknown
    ELSE SqlBool(LikeNoCase(col.s, <<"%">> \o search \o <<"%">>))

\* A slip: the search without its parentheses, AND binding before OR.
SearchWhereUnparenthesised(p, search) ==
    SqlOr(SqlAnd(SqlEq(p.visibility, Public), ILike(p.title, search)),
          ILike(p.description, search))

\* WHERE p.visibility = 'public'
\*     AND (p.title ILIKE $1 OR p.description ILIKE $1)
SearchWhere(p, search) ==
    SqlAnd(SqlEq(p.visibility, Public),
           SqlOr(ILike(p.title, search), ILike(p.description, search)))

\* WHERE p.visibility = 'public'
BrowseWhere(p) == SqlEq(p.visibility, Public)

\* ORDER BY p.created_at DESC
RECURSIVE OrderByCreatedAtDesc(_)
OrderByCreatedAtDesc(rows) ==
    IF rows = {} THEN <<>>
    ELSE LET newest == CHOOSE p \in rows : \A q \in rows : q.created_at <= p.created_at
         IN  <<newest>> \o OrderByCreatedAtDesc(rows \ {newest})

\* The rows of get_posts(search): "if search:" takes a search that is
\* given and not empty.
GetPostsRows(search) ==
    IF ~search.null /\ search.s # <<>>
    THEN OrderByCreatedAtDesc({p \in posts : SearchWhere(p, search.s) = SqlTrue})
    ELSE OrderByCreatedAtDesc({p \in posts : BrowseWhere(p) = SqlTrue})

\* A slip: the owner of the row is not compared with user_id.
DeletePostAnyUser(rows, post_id, user_id) ==
    IF user_id = "" THEN [status |-> 401, rows |-> rows]
    ELSE IF \A p \in rows : p.id # post_id THEN [status |-> 404, rows |-> rows]
    ELSE [status |-> 200, rows |-> {p \in rows : p.id # post_id}]

\* delete_post(post_id, user_id): 401 without user_id, 404 for no such
\* post, 403 when str(row["owner_user_id"]) != user_id, else DELETE.
DeletePost(rows, post_id, user_id) ==
    IF user_id = "" THEN [status |-> 401, rows |-> rows]
    ELSE IF \A p \in rows : p.id # post_id THEN [status |-> 404, rows |-> rows]
    ELSE IF \E p \in rows : p.id = post_id /\ p.owner_user_id # user_id
    THEN [status |-> 403, rows |-> rows]
    ELSE [status |-> 200, rows |-> {p \in rows : p.id # post_id}]

\* delete_comment(comment_id, user_id): as delete_post, on comments.
DeleteComment(rows, comment_id, user_id) ==
    IF user_id = "" THEN [status |-> 401, rows |-> rows]
    ELSE IF \A c \in rows : c.id # comment_id THEN [status |-> 404, rows |-> rows]
    ELSE IF \E c \in rows : c.id = comment_id /\ c.owner_user_id # user_id
    THEN [status |-> 403, rows |-> rows]
    ELSE [status |-> 200, rows |-> {c \in rows : c.id # comment_id}]

\* GET /api/posts
get_posts ==
    /\ ops < MaxPostRequests
    /\ \E search \in Searches : feed' = GetPostsRows(search)
    /\ ops' = ops + 1
    /\ last' = NoLast
    /\ UNCHANGED <<posts, applyVars, procVars, genVars, parseVars,
                   call, presets, storage, conns, tmpfiles, comments, voters>>

\* POST /api/posts: 401 without user_id; the row is inserted with the
\* visibility of the request, unless the table refuses the value.
create_post ==
    /\ ops < MaxPostRequests
    /\ \E user_id \in UserIdParams, title \in Titles, description \in Descriptions,
          visibility \in Visibilities, inserted \in BOOLEAN :
          /\ ~visibility.null => inserted
          /\ posts' =
                IF user_id = "" \/ ~inserted THEN posts
                ELSE posts \cup {[id |-> ops + 1, owner_user_id |-> user_id,
                                  title |-> title, description |-> description,
                                  visibility |-> visibility, created_at |-> ops + 1,
                                  votes |-> SqlInt(0)]}
    /\ ops' = ops + 1
    /\ last' = NoLast
    /\ UNCHANGED <<feed, applyVars, procVars, genVars, parseVars,
                   call, presets, storage, conns, tmpfiles, comments, voters>>

\* DELETE /api/posts/{post_id}: 401 without user_id, 404 for no such post,
\* 403 for the post of another user. Whether the comments of a deleted post
\* go with it is the schema's choice.
delete_post ==
    /\ ops < MaxPostRequests
    /\ \E post_id \in 1..MaxPostRequests, user_id \in UserIdParams, cascade \in BOOLEAN :
          /\ posts' = DeletePost(posts, post_id, user_id).rows
          /\ last' = [op |-> "delete_post", id |-> post_id, user_id |-> user_id,
                      status |-> DeletePost(posts, post_id, user_id).status]
          /\ comments' =
                IF cascade /\ DeletePost(posts, post_id, user_id).status = 200
                THEN {c \in comments : c.post_id # post_id}
                ELSE comments
    /\ ops' = ops + 1
    /\ UNCHANGED <<feed, applyVars, procVars, genVars, parseVars,
                   call, presets, storage, conns, tmpfiles, voters>>

\* POST /api/posts/{post_id}/comments: 401 without user_id; the row is
\* inserted for the user, unless the table refuses a post_id with no post.
create_comment ==
    /\ ops < MaxPostRequests
    /\ \E post_id \in 1..MaxPostRequests, user_id \in UserIdParams, inserted \in BOOLEAN :
          /\ (\E p \in posts : p.id = post_id) => inserted
          /\ comments' =
                IF user_id = "" \/ ~inserted THEN comments
                ELSE comments \cup {[id |-> ops + 1, post_id |-> post_id,
                                     owner_user_id |-> user_id]}
    /\ ops' = ops + 1
    /\ last' = NoLast
    /\ UNCHANGED <<posts, feed, applyVars, procVars, genVars, parseVars,
                   call, presets, storage, conns, tmpfiles, voters>>

\* DELETE /api/comments/{comment_id}
delete_comment ==
    /\ ops < MaxPostRequests
    /\ \E comment_id \in 1..MaxPostRequests, user_id \in UserIdParams :
          /\ comments' = DeleteComment(comments, comment_id, user_id).rows
          /\ last' = [op |-> "delete_comment", id |-> comment_id, user_id |-> user_id,
                      status |-> DeleteComment(comments, comment_id, user_id).status]
    /\ ops' = ops + 1
    /\ UNCHANGED <<posts, feed, applyVars, procVars, genVars, parseVars,
                   call, presets, storage, conns, tmpfiles, voters>>

InitPosts ==
    /\ NoPosts
    /\ ApplyIdle /\ ProcServing /\ NoRequests /\ NoParsing /\ NoExt

NextPosts == create_post \/ delete_post \/ get_posts

\* The posts API.
SpecPosts == InitPosts /\ [][NextPosts]_vars

NextComments == create_post \/ create_comment \/ delete_post \/ delete_comment

\* Posts and their comments, created and deleted.
SpecComments == InitPosts /\ [][NextComments]_vars

\* C20: the browse feed never shows a private post: after any creations and
\* deletions of posts, every post GET /api/posts returns, with a search
\* term or without, has the visibility public.
C20_FeedShowsPublicPostsOnly ==
    \A i \in 1..Len(feed) :
        /\ feed[i].visibility = Public
        /\ feed[i].visibility # Private

\* The feed has answered a search with the public post alone, a private
\* post with a matching description being in the table.
C20_Witness ==
    /\ Len(feed) = 1
    /\ feed[1].visibility = Public
    /\ \E p \in posts :
          /\ p.visibility = Private
          /\ p.description = SqlText(<<"p", "a", "d">>)
          /\ p.created_at > feed[1].created_at
    /\ feed[1].title = SqlText(<<"P", "a", "d">>)

\* The step is a delete request of this kind.
DeleteStep(op) == ops' = ops + 1 /\ last'.op = op

\* The row of the request exists and belongs to the user of the request.
OwnedBy(rows, l) ==
    /\ l.user_id # ""
    /\ \E r \in rows : r.id = l.id /\ r.owner_user_id = l.user_id

\* What C23 says of one delete request l that takes the table from rows to
\* after.
OnlyOwnerDeletes(rows, after, l) ==
    /\ after \subseteq rows
    /\ after # rows =>
          /\ OwnedBy(rows, l)
          /\ \A r \in rows \ after : r.id = l.id
    /\ l.user_id = "" => l.status = 401 /\ after = rows
    /\ (l.user_id # "" /\ \A r \in rows : r.id # l.id) =>
          l.status = 404 /\ after = rows
    /\ (/\ l.user_id # ""
        /\ \E r \in rows : r.id = l.id
        /\ ~OwnedBy(rows, l)) =>
          l.status = 403 /\ after = rows
    /\ l.status \in {401, 403, 404} => after = rows

\* C23: only the owner deletes: delete_post (delete_comment) removes the
\* row only if a user_id is given, the row exists and its owner_user_id is
\* that user_id; it answers 401 without user_id, 404 for a missing row and
\* 403 for a row of another user, and in these three cases the posts
\* (comments) are unchanged.
C23_OnlyOwnerDeletes ==
    [][/\ DeleteStep("delete_post") => OnlyOwnerDeletes(posts, posts', last')
       /\ DeleteStep("delete_comment") =>
             OnlyOwnerDeletes(comments, comments', last')]_vars

\* A user was refused (403) the deletion of another user's comment on the
\* user's own post, and the comment is still there.
C23_Witness ==
    /\ last.op = "delete_comment"
    /\ last.status = 403
    /\ last.user_id = "u1"
    /\ \E c \in comments :
          /\ c.id = last.id /\ c.owner_user_id = "u2"
          /\ \E q \in posts : q.id = c.post_id /\ q.owner_user_id = "u1"

\* ------------------------------------------------------------------------
\* The choice of the LLM provider (llm/providers.py): get_provider_config,
\* get_llm
\* ------------------------------------------------------------------------

Str_openai == <<"o", "p", "e", "n", "a", "i">>

Str_OpenAI == <<"O", "p", "e", "n", "A", "I">>

Str_gemini == <<"g", "e", "m", "i", "n", "i">>

Str_ollama == <<"o", "l", "l", "a", "m", "a">>

Str_mistral == <<"m", "i", "s", "t", "r", "a", "l">>

\* The values of the enumeration LLMProvider.
LLMProviderValues == {Str_openai, Str_gemini, Str_ollama}

UpperCase ==
    <<"A", "B", "C", "D", "E", "F", "G", "H", "I", "J", "K", "L", "M",
      "N", "O", "P", "Q", "R", "S", "T", "U", "V", "W", "X", "Y", "Z">>

LowerCase ==
    <<"a", "b", "c", "d", "e", "f", "g", "h", "i", "j", "k", "l", "m",
      "n", "o", "p", "q", "r", "s", "t", "u", "v", "w", "x", "y", "z">>

\* str.lower()
LowerStr(chars) ==
    [i \in 1..Len(chars) |->
        IF \E j \in 1..Len(UpperCase) : UpperCase[j] = chars[i]
        THEN LowerCase[CHOOSE j \in 1..Len(UpperCase) : UpperCase[j] = chars[i]]
        ELSE chars[i]]

\* The truth value of an Optional[str]: None and "" are false.
Truthy(v) == v # PyNone /\ v.s # <<>>

\* os.getenv(name, default)
Getenv(env, name, default) == IF env[name] = PyNone THEN default ELSE env[name]

\* What get_provider_config and get_llm give: the exception, or the
\* provider of the configuration and its key.
ProviderError(e) == [exc |-> e, provider |-> <<>>, api_key |-> PyNone]

ApiKeyOf(provider, env) ==
    IF provider = Str_openai THEN env["OPENAI_API_KEY"]
    ELSE IF provider = Str_gemini THEN env["GOOGLE_API_KEY"]
    ELSE PyNone

\* A slip: the environment first, the argument only without it.
ProviderNameEnvFirst(provider, env) ==
    IF Truthy(env["LLM_PROVIDER"]) THEN env["LLM_PROVIDER"]
    ELSE IF Truthy(provider) THEN provider
    ELSE PyStr(Str_ollama)

\* The name to take: provider or os.getenv("LLM_PROVIDER", "ollama")
ProviderName(provider, env) ==
    IF Truthy(provider) THEN provider
    ELSE Getenv(env, "LLM_PROVIDER", PyStr(Str_ollama))

\* get_provider_config(provider): LLMProvider(provider_name.lower()) raises
\* ValueError for a name that is no provider.
get_provider_config(provider, env) ==
    IF LowerStr(ProviderName(provider, env).s) \notin LLMProviderValues
    THEN ProviderError("ValueError")
    ELSE [exc |-> "",
          provider |-> LowerStr(ProviderName(provider, env).s),
          api_key |-> ApiKeyOf(LowerStr(ProviderName(provider, env).s), env)]

\* The client built from the configuration, or ValueError for openai and
\* gemini without a key.
ClientOf(config) ==
    IF config.exc # "" THEN [exc |-> config.exc, client |-> <<>>, api_key |-> PyNone]
    ELSE IF config.provider \in {Str_openai, Str_gemini} /\ ~Truthy(config.api_key)
    THEN [exc |-> "ValueError", client |-> <<>>, api_key |-> PyNone]
    ELSE [exc |-> "", client |-> config.provider, api_key |-> config.api_key]

\* get_llm(provider)
get_llm(provider, env) == ClientOf(get_provider_config(provider, env))

\* The values of the argument provider, of LLM_PROVIDER and of the keys.
ProviderArguments ==
    { PyNone, PyStr(<<>>), PyStr(Str_openai), PyStr(Str_OpenAI), PyStr(Str_gemini),
      PyStr(Str_ollama), PyStr(Str_mistral) }

ProviderSettings ==
    { PyNone, PyStr(<<>>), PyStr(Str_openai), PyStr(Str_gemini), PyStr(Str_ollama),
      PyStr(Str_mistral) }

KeySettings == { PyNone, PyStr(<<>>), PyStr(<<"s", "k">>) }

Environments ==
    { ("LLM_PROVIDER" :> p) @@ ("OPENAI_API_KEY" :> o) @@ ("GOOGLE_API_KEY" :> g) :
        p \in ProviderSettings, o \in KeySettings, g \in KeySettings }

NoClient == [exc |-> "", client |-> <<>>, api_key |-> PyNone]

\* get_llm is called.
CallGetLLM ==
    /\ call.fn = "get_llm" /\ ~call.done
    /\ call' = [call EXCEPT !.done = TRUE, !.out = get_llm(call.provider, call.env)]
    /\ UNCHANGED <<applyVars, procVars, genVars, parseVars, postVars,
                   presets, storage, conns, tmpfiles, comments, last, voters>>

InitProvider ==
    /\ \E provider \in ProviderArguments, env \in Environments :
          call = [fn |-> "get_llm", done |-> FALSE, provider |-> provider,
                  env |-> env, out |-> NoClient]
    /\ NoWorld /\ NoComments /\ NoVoters
    /\ ApplyIdle /\ ProcServing /\ NoRequests /\ NoParsing /\ NoPosts

NextProvider == CallGetLLM

\* get_llm on every argument and environment of the model.
SpecProvider == InitProvider /\ [][NextProvider]_vars

\* The provider that is asked for: the argument when it is given, else
\* LLM_PROVIDER when it is set, else ollama; in lower case.
AskedFor ==
    LowerStr((IF call.provider \notin {PyNone, PyStr(<<>>)} THEN call.provider
              ELSE IF call.env["LLM_PROVIDER"] # PyNone THEN call.env["LLM_PROVIDER"]
              ELSE PyStr(Str_ollama)).s)

HasCredential ==
    CASE AskedFor = Str_openai -> call.env["OPENAI_API_KEY"] \notin {PyNone, PyStr(<<>>)}
      [] AskedFor = Str_gemini -> call.env["GOOGLE_API_KEY"] \notin {PyNone, PyStr(<<>>)}
      [] OTHER -> TRUE

\* C21: the provider given to get_llm goes before LLM_PROVIDER, which goes
\* before the default ollama; openai or gemini without its key fails before
\* a client is built; ollama needs no key; a name that is none of openai,
\* gemini, ollama fails and no client of another provider is built.
C21_ProviderSelection ==
    (call.fn = "get_llm" /\ call.done) =>
        /\ (AskedFor \in LLMProviderValues /\ HasCredential) =>
              call.out.exc = "" /\ call.out.client = AskedFor
        /\ (AskedFor \in {Str_openai, Str_gemini} /\ ~HasCredential) =>
              call.out.exc = "ValueError" /\ call.out.client = <<>>
        /\ AskedFor = Str_ollama => call.out.exc = ""
        /\ AskedFor \notin LLMProviderValues =>
              call.out.exc = "ValueError" /\ call.out.client = <<>>

\* get_llm("OpenAI") has built the openai client with LLM_PROVIDER=gemini.
C21_Witness ==
    /\ call.fn = "get_llm" /\ call.done
    /\ call.provider = PyStr(Str_OpenAI)
    /\ call.env["LLM_PROVIDER"] = PyStr(Str_gemini)
    /\ call.env["GOOGLE_API_KEY"] = PyStr(<<"s", "k">>)
    /\ call.out.client = Str_openai
    /\ call.out.exc = ""

\* ------------------------------------------------------------------------
\* The preset handlers of main.py: get_preset_data, upload_preset and
\* generate_preset_preview, with the database table presets, the storage
\* buckets, the converter service and the open database connections.
\* ------------------------------------------------------------------------

MaxPresetRequests == 1

\* An object key: NULL, the empty string, or "<id>/<name>".
NullKey == [null |-> TRUE, id |-> 0, name |-> ""]

EmptyKey == [null |-> FALSE, id |-> 0, name |-> ""]

PresetKey(id) == [null |-> FALSE, id |-> id, name |-> "preset.vital"]

PreviewKey(id) == [null |-> FALSE, id |-> id, name |-> "preview.wav"]

\* The truth value of a key: None and "" are false.
KeyTruthy(k) == ~k.null /\ k.name # ""

PresetRow(preset_key, preview_key) ==
    [preset_object_key |-> preset_key, preview_object_key |-> preview_key]

\* The tables the handlers are called on; the id of a row is its index.
PresetTables ==
    { <<>>,
      <<PresetRow(PresetKey(1), NullKey)>>,
      <<PresetRow(PresetKey(1), PreviewKey(1))>>,
      <<PresetRow(EmptyKey, NullKey)>>,
      <<PresetRow(NullKey, NullKey)>> }

PresetIdParams == {1, 2}

\* VITA_CONVERTER_URL, SUPABASE_URL and SUPABASE_SERVICE_KEY: set or not.
PresetConfigs == [converter : BOOLEAN, supabase_url : BOOLEAN, service_key : BOOLEAN]

\* if SUPABASE_URL and SUPABASE_SERVICE_KEY
HasStorageCredentials(cfg) == cfg.supabase_url /\ cfg.service_key

\* What a call of httpx gives: a response with a status, or an exception
\* (httpx.HTTPError: the service cannot be reached, a timeout).
Response(status) == [raised |-> FALSE, status |-> status]

Raised == [raised |-> TRUE, status |-> 0]

HttpOutcomes == { Response(200), Response(201), Response(404), Response(500), Raised }

\* The outcomes of the calls a handler makes: the statement of the database
\* that raises (0: none), the answers of storage and of the converter, and
\* whether the body of the download is JSON.
Outcomes(db_fail, download, upload, convert, preview, json) ==
    [db_fail |-> db_fail, download |-> download, upload |-> upload,
     convert |-> convert, preview |-> preview, json |-> json]

\* One call a handler made, in order: a statement of the database or a
\* request to storage or the converter, with its outcome.
Did(op) == [op |-> op, raised |-> FALSE, status |-> 0]

Threw(op) == [op |-> op, raised |-> TRUE, status |-> 0]

Got(op, resp) == [op |-> op, raised |-> resp.raised, status |-> resp.status]

NoBody == [kind |-> "", id |-> 0, object_key |-> NullKey,
           preview_object_key |-> NullKey, status |-> ""]

\* What a handler does: the status of the response (500 with exc for an
\* exception nobody handles), its body, the calls made, and the table and
\* the buckets afterwards.
Handled(status, body, trace, table, store) ==
    [status |-> status, exc |-> FALSE, body |-> body, trace |-> trace,
     presets |-> table, storage |-> store]

Unhandled(trace, table, store) ==
    [status |-> 500, exc |-> TRUE, body |-> NoBody, trace |-> trace,
     presets |-> table, storage |-> store]

\* The connection is left open: the handler called connect and never close.
Leaked(trace) ==
    /\ \E i \in 1..Len(trace) : trace[i].op = "connect"
    /\ \A i \in 1..Len(trace) : trace[i].op # "close"

Made(trace, op) == \E i \in 1..Len(trace) : trace[i].op = op

Succeeded(trace, op, statuses) ==
    \E i \in 1..Len(trace) :
        trace[i].op = op /\ ~trace[i].raised /\ trace[i].status \in statuses

\* The document a 200 of storage carries for a key.
Document(key) == [kind |-> "document", id |-> key.id, object_key |-> key,
                  preview_object_key |-> NullKey, status |-> ""]

\* if not row or not row["preset_object_key"]
NoPresetFile(table, preset_id) ==
    \/ preset_id \notin DOMAIN table
    \/ ~KeyTruthy(table[preset_id].preset_object_key)

\* A slip: every failure of storage is answered 502.
GetPresetDataBadGateway(table, store, preset_id, ext) ==
    IF NoPresetFile(table, preset_id)
    THEN Handled(404, NoBody, <<Did("connect"), Did("fetchrow"), Did("close")>>,
                 table, store)
    ELSE IF ext.download.raised
    THEN Unhandled(<<Did("connect"), Did("fetchrow"), Did("close"),
                     Got("download", ext.download)>>, table, store)
    ELSE IF ext.download.status # 200
    THEN Handled(502, NoBody,
                 <<Did("connect"), Did("fetchrow"), Did("close"),
                   Got("download", ext.download)>>, table, store)
    ELSE Handled(200, Document(table[preset_id].preset_object_key),
                 <<Did("connect"), Did("fetchrow"), Did("close"),
                   Got("download", ext.download)>>, table, store)

\* get_preset_data(preset_id): the row is read and the connection closed;
\* 404 without a row or a key; else the file is fetched from storage, a
\* status other than 200 is raised as it is, and the body of a 200 is
\* parsed (response.json() raises on a body that is no JSON).
GetPresetData(table, store, preset_id, ext) ==
    IF NoPresetFile(table, preset_id)
    THEN Handled(404, NoBody, <<Did("connect"), Did("fetchrow"), Did("close")>>,
                 table, store)
    ELSE IF ext.download.raised
    THEN Unhandled(<<Did("connect"), Did("fetchrow"), Did("close"),
                     Got("download", ext.download)>>, table, store)
    ELSE IF ext.download.status # 200
    THEN Handled(ext.download.status, NoBody,
                 <<Did("connect"), Did("fetchrow"), Did("close"),
                   Got("download", ext.download)>>, table, store)
    ELSE IF ~ext.json
    THEN Unhandled(<<Did("connect"), Did("fetchrow"), Did("close"),
                     Got("download", ext.download), Threw("json")>>, table, store)
    ELSE Handled(200, Document(table[preset_id].preset_object_key),
                 <<Did("connect"), Did("fetchrow"), Did("close"),
                   Got("download", ext.download)>>, table, store)

\* UPDATE presets SET preview_object_key = $1 WHERE id = $2
SetPreviewKey(table, preset_id, key) ==
    [i \in DOMAIN table |->
        IF i = preset_id THEN [table[i] EXCEPT !.preview_object_key = key]
        ELSE table[i]]

\* UPDATE presets SET supabase_key = $1, preset_object_key = $1 WHERE id = $2
SetPresetKey(table, preset_id, key) ==
    [i \in DOMAIN table |->
        IF i = preset_id THEN [table[i] EXCEPT !.preset_object_key = key]
        ELSE table[i]]

PreviewBody(key, status) ==
    [kind |-> "preview", id |-> key.id, object_key |-> NullKey,
     preview_object_key |-> key, status |-> status]

\* The end of generate_preset_preview: the UPDATE of the row, close, and
\* the answer "generated".
GenerateUpdate(table, store, preset_id, ext, trace) ==
    IF ext.db_fail = 2
    THEN Unhandled(trace \o <<Threw("update")>>, table, store)
    ELSE Handled(200, PreviewBody(PreviewKey(preset_id), "generated"),
                 trace \o <<Did("update"), Did("close")>>,
                 SetPreviewKey(table, preset_id, PreviewKey(preset_id)), store)

\* The upload of the preview in generate_preset_preview, made only with
\* SUPABASE_URL and SUPABASE_SERVICE_KEY; the UPDATE follows in either case.
GenerateUpload(cfg, table, store, preset_id, ext, trace) ==
    IF ~HasStorageCredentials(cfg)
    THEN GenerateUpdate(table, store, preset_id, ext, trace)
    ELSE IF ext.preview.raised
    THEN Unhandled(trace \o <<Got("upload", ext.preview)>>, table, store)
    ELSE IF ext.preview.status \notin {200, 201}
    THEN Handled(502, NoBody, trace \o <<Got("upload", ext.preview), Did("close")>>,
                 table, store)
    ELSE GenerateUpdate(table, store \cup {PreviewKey(preset_id)}, preset_id, ext,
                        trace \o <<Got("upload", ext.preview)>>)

\* The conversion in generate_preset_preview: a status other than 200 and
\* an httpx.HTTPError both close the connection and give 502.
GenerateConvert(cfg, table, store, preset_id, ext, trace) ==
    IF ext.convert.raised \/ ext.convert.status # 200
    THEN Handled(502, NoBody, trace \o <<Got("convert", ext.convert), Did("close")>>,
                 table, store)
    ELSE GenerateUpload(cfg, table, store, preset_id, ext,
                        trace \o <<Got("convert", ext.convert)>>)

\* generate_preset_preview(preset_id)
GeneratePresetPreview(cfg, table, store, preset_id, ext) ==
    IF ~cfg.converter
    THEN Handled(503, NoBody, <<>>, table, store)
    ELSE IF ext.db_fail = 1
    THEN Unhandled(<<Did("connect"), Threw("fetchrow")>>, table, store)
    ELSE IF NoPresetFile(table, preset_id)
    THEN Handled(404, NoBody, <<Did("connect"), Did("fetchrow"), Did("close")>>,
                 table, store)
    ELSE IF KeyTruthy(table[preset_id].preview_object_key)
    THEN Handled(200, PreviewBody(table[preset_id].preview_object_key, "already_exists"),
                 <<Did("connect"), Did("fetchrow"), Did("close")>>, table, store)
    ELSE IF ext.download.raised
    THEN Unhandled(<<Did("connect"), Did("fetchrow"), Got("download", ext.download)>>,
                   table, store)
    ELSE IF ext.download.status # 200
    THEN Handled(502, NoBody,
                 <<Did("connect"), Did("fetchrow"), Got("download", ext.download),
                   Did("close")>>, table, store)
    ELSE GenerateConvert(cfg, table, store, preset_id, ext,
                         <<Did("connect"), Did("fetchrow"),
                           Got("download", ext.download)>>)

UploadBody(id, preview_key) ==
    [kind |-> "upload", id |-> id, object_key |-> PresetKey(id),
     preview_object_key |-> preview_key, status |-> ""]

\* The end of upload_preset: close, and the answer with the three keys.
UploadReturn(table, store, id, preview_key, trace) ==
    Handled(200, UploadBody(id, preview_key), trace \o <<Did("close")>>, table, store)

\* The preview of upload_preset after a 200 of the converter: the key is
\* set; with SUPABASE_URL and SUPABASE_SERVICE_KEY the preview is uploaded
\* (a failure sets the key to None) and a key still set is written to the
\* row; an exception of the upload or of the UPDATE sets the key to None.
UploadPreview(cfg, table, store, id, ext, trace) ==
    IF ~HasStorageCredentials(cfg)
    THEN UploadReturn(table, store, id, PreviewKey(id), trace)
    ELSE IF ext.preview.raised
    THEN UploadReturn(table, store, id, NullKey,
                      trace \o <<Got("upload_preview", ext.preview)>>)
    ELSE IF ext.preview.status \notin {200, 201}
    THEN UploadReturn(table, store, id, NullKey,
                      trace \o <<Got("upload_preview", ext.preview)>>)
    ELSE IF ext.db_fail = 3
    THEN UploadReturn(table, store \cup {PreviewKey(id)}, id, NullKey,
                      trace \o <<Got("upload_preview", ext.preview),
                                 Threw("update_preview")>>)
    ELSE UploadReturn(SetPreviewKey(table, id, PreviewKey(id)),
                      store \cup {PreviewKey(id)}, id, PreviewKey(id),
                      trace \o <<Got("upload_preview", ext.preview),
                                 Did("update_preview")>>)

\* The conversion of upload_preset, made only with VITA_CONVERTER_URL; an
\* exception and a status other than 200 leave the key None.
UploadConvert(cfg, table, store, id, ext, trace) ==
    IF ~cfg.converter
    THEN UploadReturn(table, store, id, NullKey, trace)
    ELSE IF ext.convert.raised \/ ext.convert.status # 200
    THEN UploadReturn(table, store, id, NullKey,
                      trace \o <<Got("convert", ext.convert)>>)
    ELSE UploadPreview(cfg, table, store, id, ext,
                       trace \o <<Got("convert", ext.convert)>>)

\* The UPDATE of the object key in upload_preset.
UploadUpdate(cfg, table, store, id, ext, trace) ==
    IF ext.db_fail = 2
    THEN Unhandled(trace \o <<Threw("update")>>, table, store)
    ELSE UploadConvert(cfg, SetPresetKey(table, id, PresetKey(id)), store, id, ext,
                       trace \o <<Did("update")>>)

\* The upload of the file in upload_preset, made only with SUPABASE_URL and
\* SUPABASE_SERVICE_KEY; a status other than 200 and 201 is only printed.
UploadFile(cfg, table, store, id, ext, trace) ==
    IF ~HasStorageCredentials(cfg)
    THEN UploadUpdate(cfg, table, store, id, ext, trace)
    ELSE IF ext.upload.raised
    THEN Unhandled(trace \o <<Got("upload", ext.upload)>>, table, store)
    ELSE UploadUpdate(cfg, table,
                      IF ext.upload.status \in {200, 201}
                      THEN store \cup {PresetKey(id)} ELSE store,
                      id, ext, trace \o <<Got("upload", ext.upload)>>)

\* upload_preset(file, title); vital says whether the name of the file ends
\* with ".vital". The row is inserted with empty keys.
UploadPreset(cfg, table, store, vital, ext) ==
    IF ~vital
    THEN Handled(400, NoBody, <<>>, table, store)
    ELSE IF ext.db_fail = 1
    THEN Unhandled(<<Did("connect"), Threw("insert")>>, table, store)
    ELSE UploadFile(cfg, Append(table, PresetRow(EmptyKey, NullKey)), store,
                    Len(table) + 1, ext, <<Did("connect"), Did("insert")>>)

NoOutcome == Handled(0, NoBody, <<>>, <<>>, {})

\* The objects the rows of a table name.
ObjectsOf(table) ==
    { table[i].preset_object_key : i \in DOMAIN table } \cup
    { table[i].preview_object_key : i \in DOMAIN table }

StoredObjects(table) == { k \in ObjectsOf(table) : KeyTruthy(k) }

\* A request is answered: the response and the calls made are kept, the
\* table and the buckets are what the handler left, and a connection that
\* was opened and not closed stays open.
Answer(handler, preset_id, vital, out) ==
    /\ call' = [call EXCEPT !.handler = handler, !.n = @ + 1,
                            !.preset_id = preset_id, !.vital = vital,
                            !.before = presets, !.stored = storage, !.out = out]
    /\ presets' = out.presets
    /\ storage' = out.storage
    /\ conns' = IF Leaked(out.trace) THEN conns + 1 ELSE conns
    /\ UNCHANGED <<applyVars, procVars, genVars, parseVars, postVars,
                   tmpfiles, comments, last, voters>>

\* GET /api/presets/{preset_id}/data
get_preset_data ==
    /\ call.fn = "presets" /\ call.n < MaxPresetRequests
    /\ \E preset_id \in PresetIdParams, download \in HttpOutcomes, json \in BOOLEAN :
          Answer("get_preset_data", preset_id, FALSE,
                 GetPresetData(presets, storage, preset_id,
                               Outcomes(0, download, Raised, Raised, Raised, json)))

\* POST /api/presets/upload
upload_preset ==
    /\ call.fn = "presets" /\ call.n < MaxPresetRequests
    /\ \E vital \in BOOLEAN, db_fail \in 0..3, upload \in HttpOutcomes,
          convert \in HttpOutcomes, preview \in HttpOutcomes :
          Answer("upload_preset", 0, vital,
                 UploadPreset(call.cfg, presets, storage, vital,
                              Outcomes(db_fail, Raised, upload, convert, preview, TRUE)))

\* POST /api/presets/{preset_id}/generate-preview
generate_preset_preview ==
    /\ call.fn = "presets" /\ call.n < MaxPresetRequests
    /\ \E preset_id \in PresetIdParams, db_fail \in 0..2, download \in HttpOutcomes,
          convert \in HttpOutcomes, preview \in HttpOutcomes :
          Answer("generate_preset_preview", preset_id, FALSE,
                 GeneratePresetPreview(call.cfg, presets, storage, preset_id,
                              Outcomes(db_fail, download, Raised, convert, preview, TRUE)))

InitPresets ==
    /\ \E cfg \in PresetConfigs, table \in PresetTables :
          /\ call = [fn |-> "presets", done |-> FALSE, handler |-> "", n |-> 0,
                     cfg |-> cfg, preset_id |-> 0, vital |-> FALSE,
                     before |-> <<>>, stored |-> {}, out |-> NoOutcome]
          /\ presets = table
          /\ storage = StoredObjects(table)
    /\ conns = 0 /\ tmpfiles = {}
    /\ NoComments /\ NoVoters
    /\ ApplyIdle /\ ProcServing /\ NoRequests /\ NoParsing /\ NoPosts

NextPresets == get_preset_data \/ upload_preset \/ generate_preset_preview

\* The preset handlers on every configuration, table and outcome of the model.
SpecPresets == InitPresets /\ [][NextPresets]_vars

\* The last request was handled by this handler.
Handler(name) == call.fn = "presets" /\ call.n > 0 /\ call.handler = name

\* C22: get_preset_data answers 404 without asking storage when the preset
\* has no row or no object key; a status of storage other than 200 is the
\* status of the error and no document is returned; a document is returned
\* only on a 200 of storage.
C22_PresetFetchErrors ==
    Handler("get_preset_data") =>
        /\ NoPresetFile(call.before, call.preset_id) =>
              /\ call.out.status = 404
              /\ ~Made(call.out.trace, "download")
        /\ \A i \in 1..Len(call.out.trace) :
              (/\ call.out.trace[i].op = "download"
               /\ ~call.out.trace[i].raised
               /\ call.out.trace[i].status # 200) =>
                  /\ call.out.status = call.out.trace[i].status
                  /\ ~call.out.exc
                  /\ call.out.body = NoBody
        /\ call.out.body # NoBody =>
              /\ Succeeded(call.out.trace, "download", {200})
              /\ call.out.status = 200

\* Storage answered 500 for the file of a preset, and the fetch failed
\* with an error 500 and no document.
C22_Witness ==
    /\ Handler("get_preset_data")
    /\ ~NoPresetFile(call.before, call.preset_id)
    /\ Succeeded(call.out.trace, "download", {500})
    /\ call.out.status = 500 /\ ~call.out.exc
    /\ call.out.body = NoBody

\* The download, the conversion and the upload succeeded, in that order,
\* before the call at position u of the trace.
AllThreeBefore(trace, u) ==
    \E i, j, k \in 1..Len(trace) :
        /\ i < j /\ j < k /\ k < u
        /\ trace[i].op = "download" /\ ~trace[i].raised /\ trace[i].status = 200
        /\ trace[j].op = "convert" /\ ~trace[j].raised /\ trace[j].status = 200
        /\ trace[k].op = "upload" /\ ~trace[k].raised /\ trace[k].status \in {200, 201}

\* C24: generate_preset_preview writes preview_object_key only after the
\* download, the conversion and the upload of the preview have succeeded,
\* in that order; with 503, 404 or 502 the row is as it was; a row that has
\* a preview_object_key is answered already_exists without a call of the
\* converter or of storage and without an update.
C24_PreviewKeyAfterUpload ==
    Handler("generate_preset_preview") =>
        /\ \A u \in 1..Len(call.out.trace) :
              (call.out.trace[u].op = "update" /\ ~call.out.trace[u].raised) =>
                  AllThreeBefore(call.out.trace, u)
        /\ presets # call.before =>
              \E u \in 1..Len(call.out.trace) : AllThreeBefore(call.out.trace, u)
        /\ call.out.status \in {503, 404, 502} => presets = call.before
        /\ (/\ call.cfg.converter
            /\ ~NoPresetFile(call.before, call.preset_id)
            /\ KeyTruthy(call.before[call.preset_id].preview_object_key)
            /\ ~call.out.exc) =>
              /\ call.out.body.status = "already_exists"
              /\ ~Made(call.out.trace, "download")
              /\ ~Made(call.out.trace, "convert")
              /\ ~Made(call.out.trace, "upload")
              /\ ~Made(call.out.trace, "update")
              /\ presets = call.before

\* C28: the preview_object_key upload_preset returns agrees with the
\* database: it is not null exactly when the preview was uploaded to
\* storage and the row of the preset has the same key; whatever the
\* configuration and the outcome of converter and upload, a failure of the
\* preview gives a null key, and the upload itself succeeds and returns the
\* id of the preset.
C28_ReturnedPreviewKeyAgrees ==
    (Handler("upload_preset") /\ call.vital /\ ~call.out.exc) =>
        /\ call.out.status = 200
        /\ call.out.body.id = Len(call.before) + 1
        /\ call.out.body.id \in DOMAIN presets
        /\ KeyTruthy(call.out.body.preview_object_key) <=>
              /\ Succeeded(call.out.trace, "upload_preview", {200, 201})
              /\ call.out.body.preview_object_key \in storage
              /\ presets[call.out.body.id].preview_object_key =
                    call.out.body.preview_object_key
        /\ ~Succeeded(call.out.trace, "upload_preview", {200, 201}) =>
              ~KeyTruthy(call.out.body.preview_object_key)

\* C29: every connection upload_preset or generate_preset_preview opens is
\* closed when the handler finishes: on a normal return, on each HTTP
\* error, and on an exception of a call of storage or of the converter or
\* of a statement of the database between connect and close.
C29_ConnectionsClosed ==
    (Handler("upload_preset") \/ Handler("generate_preset_preview")) =>
        /\ ~Leaked(call.out.trace)
        /\ conns = 0

\* ------------------------------------------------------------------------
\* apply_patch_to_vital(original_path, patch_dict, output_path)
\* ------------------------------------------------------------------------

\* json.dump: the JSON text of a value, token by token: null, true, false,
\* a literal of an int, a literal of a float (NaN and Infinity for the
\* floats that are no numbers), a string, an object, an array.
RECURSIVE JsonDump(_)
JsonDump(v) ==
    [j |-> CASE v.t = "NoneType" -> "null"
             [] v.t = "bool" -> IF v.n = 1 THEN "true" ELSE "false"
             [] v.t = "int" -> "integer"
             [] v.t = "float" ->
                   IF v.s = <<>> THEN "decimal"
                   ELSE IF v.s = <<"nan">> THEN "NaN"
                   ELSE IF v.n > 0 THEN "Infinity" ELSE "-Infinity"
             [] v.t = "str" -> "string"
             [] v.t = "dict" -> "object"
             [] OTHER -> "array",
     digits |-> IF v.t \in {"int", "float"} /\ v.s = <<>> THEN v.n ELSE 0,
     chars |-> IF v.t = "str" THEN v.s ELSE <<>>,
     members |-> [k \in DOMAIN v.kids |-> JsonDump(v.kids[k])]]

\* The value of a JSON token that is no object and no array.
JsonScalar(j) ==
    CASE j.j = "null" -> PyNone
      [] j.j = "true" -> PyBool(TRUE)
      [] j.j = "false" -> PyBool(FALSE)
      [] j.j = "integer" -> PyInt(j.digits)
      [] j.j = "decimal" -> PyFloat(j.digits)
      [] j.j = "NaN" -> PyNaN
      [] j.j = "Infinity" -> PyInf
      [] j.j = "-Infinity" -> PyNegInf
      [] j.j = "string" -> PyStr(j.chars)
      [] j.j = "object" -> PyDictValue
      [] OTHER -> PyListValue

\* json.load: the value of a JSON text.
RECURSIVE JsonLoad(_)
JsonLoad(j) ==
    [t |-> JsonScalar(j).t, n |-> JsonScalar(j).n, s |-> JsonScalar(j).s,
     kids |-> [k \in DOMAIN j.members |-> JsonLoad(j.members[k])]]

\* The items of vital_data['settings'] after the loop from entry i on:
\* vital_data['settings'][key] = value, the value as the patch has it.
RECURSIVE RawPatchFrom(_, _, _)
RawPatchFrom(settings, patch_dict, i) ==
    IF i > Len(patch_dict) THEN settings
    ELSE RawPatchFrom((patch_dict[i].k :> Scalar(patch_dict[i].v)) @@ settings,
                      patch_dict, i + 1)

\* The document at the end of apply_patch_to_vital, before it is written.
PatchedVital(vital_data, patch_dict) ==
    [vital_data EXCEPT !.kids =
        ("settings" :> DictValue(RawPatchFrom(SettingsOrEmpty(vital_data), patch_dict, 1)))
            @@ @]

\* apply_patch_to_vital: the file at original_path is loaded, settings is
\* made a dict, every entry of the patch is assigned, and the document is
\* written to output_path; a file that holds no JSON object ends the call
\* with TypeError and nothing is written.
ApplyPatchToVital(original, patch_dict) ==
    IF JsonLoad(original).t # "dict"
    THEN [exc |-> "TypeError", written |-> FALSE, output |-> JsonDump(NoDeep)]
    ELSE [exc |-> "", written |-> TRUE,
          output |-> JsonDump(PatchedVital(JsonLoad(original), patch_dict))]

ListValue == [t |-> "list", n |-> 0, s |-> <<>>, kids |-> <<>>]

\* The files at original_path: a preset with settings, one without, one
\* whose settings is a list, and a file that holds null.
VitalFiles ==
    { JsonDump(RequestDocument),
      JsonDump(DictValue(<<>>)),
      JsonDump(DictValue("settings" :> ListValue)),
      JsonDump(NoDeep) }

NoOutput == [exc |-> "", written |-> FALSE, output |-> JsonDump(NoDeep)]

\* apply_patch_to_vital is called.
apply_patch_to_vital ==
    /\ call.fn = "apply_patch_to_vital" /\ ~call.done
    /\ call' = [call EXCEPT !.done = TRUE,
                            !.out = ApplyPatchToVital(call.original, call.patch_dict)]
    /\ UNCHANGED <<applyVars, procVars, genVars, parseVars, postVars,
                   presets, storage, conns, tmpfiles, comments, last, voters>>

InitVital ==
    /\ \E original \in VitalFiles, patch_dict \in Patches :
          call = [fn |-> "apply_patch_to_vital", done |-> FALSE,
                  original |-> original, patch_dict |-> patch_dict, out |-> NoOutput]
    /\ NoWorld /\ NoComments /\ NoVoters
    /\ ApplyIdle /\ ProcServing /\ NoRequests /\ NoParsing /\ NoPosts

NextVital == apply_patch_to_vital

\* apply_patch_to_vital on every file and patch of the model.
SpecVital == InitVital /\ [][NextVital]_vars

\* The types of the values the file at output_path has in settings for the
\* keys of the patch.
WrittenTypes(output, patch_dict) ==
    { JsonLoad(output).kids["settings"].kids[patch_dict[i].k].t :
        i \in 1..Len(patch_dict) }

\* C26: the path through files and the path in memory agree: for every
\* preset document D and raw patch P the document apply_patch_to_vital
\* writes is apply_patch_dict(D, P), and the path through files writes no
\* boolean, string or null into settings.
C26_FilePathAgreesWithMemory ==
    (call.fn = "apply_patch_to_vital" /\ call.done /\ call.out.written) =>
        /\ ApplyPatchDict(JsonLoad(call.original), call.patch_dict).exc = ""
        /\ JsonLoad(call.out.output) =
              ApplyPatchDict(JsonLoad(call.original), call.patch_dict).doc
        /\ WrittenTypes(call.out.output, call.patch_dict)
              \cap {"bool", "str", "NoneType"} = {}

\* C27: render_preset_to_wav_b64 leaves no temporary file: on every path
\* on which the .vital file was created (a render that succeeds, a preset
\* that does not load, a buffer of the wrong shape, an exception while the
\* preset is written into the file, an exception while rendering or
\* encoding) the file is deleted when the function returns.
C27_NoTemporaryFileLeft ==
    \A r \in DOMAIN req :
        (/\ req[r].st = "complete"
         /\ req[r].render_env \in
               {"fine", "preset does not load", "load raises", "render raises",
                "mono buffer", "write raises", "dump raises"}) =>
            r \notin tmpfiles

\* ------------------------------------------------------------------------
\* The votes API (main.py): upvote_post, downvote_post, requests in flight
\* together
\* ------------------------------------------------------------------------

\* The vote requests of a run.
MaxVotes == 3

\* A slip: votes + 1, which is NULL for NULL.
VotesAfterNoCoalesce(votes, delta) ==
    IF votes.null THEN SqlNullInt ELSE SqlInt(votes.n + delta)

\* COALESCE(votes, 0) + delta
VotesAfter(votes, delta) ==
    SqlInt((IF votes.null THEN 0 ELSE votes.n) + delta)

\* UPDATE posts SET votes = COALESCE(votes, 0) + delta WHERE id = $1
UpdateVotes(rows, post_id, delta) ==
    { IF p.id = post_id THEN [p EXCEPT !.votes = VotesAfter(p.votes, delta)] ELSE p :
        p \in rows }

\* RETURNING votes: the row the statement gives, or none.
ReturningVotes(rows, post_id, delta) ==
    IF \E p \in rows : p.id = post_id
    THEN [found |-> TRUE,
          votes |-> VotesAfter((CHOOSE p \in rows : p.id = post_id).votes, delta)]
    ELSE [found |-> FALSE, votes |-> SqlNullInt]

\* The values votes has before the requests.
InitialVotes == { SqlNullInt, SqlInt(0), SqlInt(3) }

VotedPost(votes) ==
    [id |-> 1, owner_user_id |-> "u1", title |-> SqlText(<<"P", "a", "d">>),
     description |-> SqlNull, visibility |-> Public, created_at |-> 1,
     votes |-> votes]

\* post_id of a vote: the post, or no post.
VotePostIds == {1, 2}

\* How many statements have run.
Applied == Cardinality({i \in DOMAIN voters : voters[i].pc # "connected"})

\* A request arrives and its handler connects.
VoteRequest ==
    /\ call.fn = "votes"
    /\ Len(voters) < MaxVotes
    /\ \E op \in {"upvote_post", "downvote_post"}, post_id \in VotePostIds :
          voters' = Append(voters,
                           [op |-> op, post_id |-> post_id, pc |-> "connected",
                            found |-> FALSE, votes |-> SqlNullInt, order |-> 0,
                            status |-> 0])
    /\ UNCHANGED <<applyVars, procVars, genVars, parseVars, posts, feed, ops,
                   call, presets, storage, conns, tmpfiles, comments, last>>

\* The statement of the handler of request i runs, in one step of the
\* database; order is its place among the statements.
VoteStatement(i, delta) ==
    /\ voters[i].pc = "connected"
    /\ posts' = UpdateVotes(posts, voters[i].post_id, delta)
    /\ voters' = [voters EXCEPT ![i] =
                    [@ EXCEPT !.pc = "updated",
                              !.found = ReturningVotes(posts, voters[i].post_id, delta).found,
                              !.votes = ReturningVotes(posts, voters[i].post_id, delta).votes,
                              !.order = Applied + 1]]
    /\ UNCHANGED <<applyVars, procVars, genVars, parseVars, feed, ops,
                   call, presets, storage, conns, tmpfiles, comments, last>>

\* POST /api/posts/{post_id}/upvote
upvote_post(i) == voters[i].op = "upvote_post" /\ VoteStatement(i, 1)

\* POST /api/posts/{post_id}/downvote
downvote_post(i) == voters[i].op = "downvote_post" /\ VoteStatement(i, -1)

\* The handler of request i closes the connection and answers: 404 if the
\* statement gave no row, else the votes it gave.
VoteResponse(i) ==
    /\ voters[i].pc = "updated"
    /\ voters' = [voters EXCEPT ![i] =
                    [@ EXCEPT !.pc = "done",
                              !.status = IF voters[i].found THEN 200 ELSE 404]]
    /\ UNCHANGED <<applyVars, procVars, genVars, parseVars, postVars,
                   call, presets, storage, conns, tmpfiles, comments, last>>

InitVotes ==
    /\ \E votes \in InitialVotes :
          /\ call = [fn |-> "votes", done |-> FALSE, initial |-> votes]
          /\ posts = {VotedPost(votes)}
    /\ feed = <<>> /\ ops = 0
    /\ voters = <<>>
    /\ NoWorld /\ NoComments
    /\ ApplyIdle /\ ProcServing /\ NoRequests /\ NoParsing

NextVotes ==
    \/ VoteRequest
    \/ \E i \in DOMAIN voters : upvote_post(i) \/ downvote_post(i) \/ VoteResponse(i)

\* Vote requests in flight together, their steps in any order.
SpecVotes == InitVotes /\ [][NextVotes]_vars

\* +1 for an upvote, -1 for a downvote.
DeltaOf(v) == IF v.op = "upvote_post" THEN 1 ELSE -1

\* The sum of the votes on the post whose statement has run, up to the
\* place n among the statements.
RECURSIVE NetVotes(_, _)
NetVotes(n, i) ==
    IF i = 0 THEN 0
    ELSE NetVotes(n, i - 1)
           + (IF /\ voters[i].pc # "connected"
                 /\ voters[i].post_id = 1
                 /\ voters[i].order <= n
              THEN DeltaOf(voters[i]) ELSE 0)

InitialCount == IF call.initial.null THEN 0 ELSE call.initial.n

\* C30: no vote is lost: after any upvotes and downvotes on a post, their
\* steps in any order, votes is the value at the start (null as 0) plus the
\* upvotes minus the downvotes; each response carries the value after its
\* own update; a vote on a missing post is answered 404 and changes no row.
C30_NoVoteLost ==
    call.fn = "votes" =>
        /\ posts = IF Applied = 0 \/ \A i \in DOMAIN voters :
                         voters[i].pc = "connected" \/ voters[i].post_id # 1
                   THEN {VotedPost(call.initial)}
                   ELSE {VotedPost(SqlInt(InitialCount + NetVotes(Applied, Len(voters))))}
        /\ \A i \in DOMAIN voters :
              /\ (voters[i].pc = "done" /\ voters[i].post_id = 1) =>
                    /\ voters[i].status = 200
                    /\ voters[i].votes =
                          SqlInt(InitialCount + NetVotes(voters[i].order, Len(voters)))
              /\ (voters[i].pc = "done" /\ voters[i].post_id # 1) =>
                    voters[i].status = 404

\* Three votes on a post whose votes were null, all connected before the
\* first statement ran: two upvotes and a downvote, answered 1, 2 and 1 in
\* the order of their statements, which is not the order of arrival.
C30_Witness ==
    /\ call.fn = "votes" /\ call.initial = SqlNullInt
    /\ Len(voters) = 3
    /\ \A i \in 1..3 : voters[i].pc = "done" /\ voters[i].post_id = 1
    /\ voters[1].op = "downvote_post" /\ voters[1].order = 3 /\ voters[1].votes = SqlInt(1)
    /\ voters[2].op = "upvote_post" /\ voters[2].order = 2 /\ voters[2].votes = SqlInt(2)
    /\ voters[3].op = "upvote_post" /\ voters[3].order = 1 /\ voters[3].votes = SqlInt(1)
    /\ posts = {VotedPost(SqlInt(1))}

====
